---------------------------- MODULE Spec2Model ----------------------------
(***************************************************************************)
(* A model of the Paysera payment app: the gateway protocol codec          *)
(* (paysera-request-builder, paysera-callback-handler, paysera-client) and *)
(* the HTTP callback endpoint (pages/api/paysera/callback.ts).             *)
(*                                                                         *)
(* A JavaScript string is a sequence of one-character strings, so that     *)
(* splitting, percent-decoding, base64 and case folding are computed       *)
(* character by character, the way the code computes them.                 *)
(***************************************************************************)
EXTENDS Integers, Sequences, FiniteSets, TLC

VARIABLES
    call,       \* codec specifications: the operation applied and its arguments
    outcome,    \* codec specifications: what the operation returned or threw
    pc,         \* endpoint: where the request being handled stands
    req,        \* endpoint: the query parameters of that request
    env,        \* endpoint: what the collaborators answered while handling it
    res,        \* endpoint: the response sent to it (undefined: none yet)
    reports,    \* endpoint: the transactionEventReport mutations issued so far
    uuidClock,  \* endpoint: the number of UUIDv7 values generated so far
    deliveries  \* endpoint: the number of requests received so far

vars == <<call, outcome, pc, req, env, res, reports, uuidClock, deliveries>>

(***************************************************************************)
(* Characters                                                              *)
(***************************************************************************)

\* The printable ASCII characters, code 32 first ("<bt>" stands for the
\* backquote, code 96, which the inputs of the model never hold).
Ascii ==
    <<" ", "!", "\"", "#", "$", "%", "&", "'", "(", ")", "*", "+", ",", "-", ".",
      "/", "0", "1", "2", "3", "4", "5", "6", "7", "8", "9", ":", ";", "<", "=",
      ">", "?", "@", "A", "B", "C", "D", "E", "F", "G", "H", "I", "J", "K", "L",
      "M", "N", "O", "P", "Q", "R", "S", "T", "U", "V", "W", "X", "Y", "Z", "[",
      "\\", "]", "^", "_", "<bt>", "a", "b", "c", "d", "e", "f", "g", "h", "i", "j",
      "k", "l", "m", "n", "o", "p", "q", "r", "s", "t", "u", "v", "w", "x", "y",
      "z", "{", "|", "}", "~">>

\* A byte the model has no character for (a control character, or a byte that
\* is not ASCII): one symbol stands for all of them.
NonPrintable == "<?>"

Code(c) == 31 + (CHOOSE i \in 1..Len(Ascii) : Ascii[i] = c)

Chr(n) == IF n >= 32 /\ n <= 126 THEN Ascii[n - 31] ELSE NonPrintable

HexDigits == <<"0", "1", "2", "3", "4", "5", "6", "7", "8", "9",
               "a", "b", "c", "d", "e", "f">>

UpperHex == <<"A", "B", "C", "D", "E", "F">>

IsHexDigit(c) ==
    \/ \E i \in 1..16 : HexDigits[i] = c
    \/ \E i \in 1..6 : UpperHex[i] = c

HexVal(c) ==
    IF \E i \in 1..16 : HexDigits[i] = c
    THEN (CHOOSE i \in 1..16 : HexDigits[i] = c) - 1
    ELSE 9 + (CHOOSE i \in 1..6 : UpperHex[i] = c)

IsDigit(c) == \E i \in 1..10 : HexDigits[i] = c

\* String.prototype.toLowerCase, on ASCII.
LowerChar(c) ==
    IF c \in {Ascii[i] : i \in 34..59} THEN Chr(Code(c) + 32) ELSE c

toLowerCase(s) == [i \in 1..Len(s) |-> LowerChar(s[i])]

UpperChar(c) ==
    IF c \in {Ascii[i] : i \in 66..91} THEN Chr(Code(c) - 32) ELSE c

toUpperCase(s) == [i \in 1..Len(s) |-> UpperChar(s[i])]

(***************************************************************************)
(* Results: a returned value, or a thrown error with its class and message *)
(***************************************************************************)

Ok(v) == [ok |-> TRUE, value |-> v, error |-> "", message |-> <<"", <<>>>>]

Throw(cls, text, arg) ==
    [ok |-> FALSE, value |-> <<>>, error |-> cls, message |-> <<text, arg>>]

\* An optional field: <<>> is undefined, <<v>> is the value v.
Undefined == <<>>

Some(v) == <<v>>

(***************************************************************************)
(* String.prototype.split(sep), for a one-character separator              *)
(***************************************************************************)

\* The positions of a set, in increasing order.
Ascending(positions) ==
    [k \in 1..Cardinality(positions) |->
        CHOOSE p \in positions : Cardinality({q \in positions : q < p}) = k - 1]

\* The pieces between the separators: one more piece than separators, a piece
\* being empty where two separators touch or one stands at an end.
split(s, sep) ==
    LET at   == Ascending({i \in 1..Len(s) : s[i] = sep})
        from(k) == IF k = 1 THEN 1 ELSE at[k - 1] + 1
        to(k)   == IF k > Len(at) THEN Len(s) ELSE at[k] - 1
    IN  [k \in 1..(Len(at) + 1) |-> SubSeq(s, from(k), to(k))]

(***************************************************************************)
(* decodeURIComponent: %XX becomes the byte XX; an incomplete escape, or a *)
(* byte that does not begin a character (the inputs of the model hold no   *)
(* multi-byte UTF-8 sequences), throws URIError.                           *)
(***************************************************************************)

MalformedURI(s) ==
    \E i \in 1..Len(s) :
        /\ s[i] = "%"
        /\ \/ i + 2 > Len(s)
           \/ ~IsHexDigit(s[i + 1])
           \/ ~IsHexDigit(s[i + 2])
           \/ 16 * HexVal(s[i + 1]) + HexVal(s[i + 2]) >= 128

\* The characters of a well-formed s: one for each escape and one for each
\* character outside an escape.
Unescape(s) ==
    LET starts == Ascending({i \in 1..Len(s) :
                                /\ ~(i > 1 /\ s[i - 1] = "%")
                                /\ ~(i > 2 /\ s[i - 2] = "%")})
    IN  [k \in 1..Len(starts) |->
            LET i == starts[k]
            IN  IF s[i] = "%"
                THEN Chr(16 * HexVal(s[i + 1]) + HexVal(s[i + 2]))
                ELSE s[i]]

decodeURIComponent(s) ==
    IF MalformedURI(s)
    THEN Throw("URIError", "URI malformed", <<>>)
    ELSE Ok(Unescape(s))

(***************************************************************************)
(* paysera-callback-handler.ts: parseQueryString                           *)
(***************************************************************************)

EmptyParams == [k \in {} |-> <<>>]

\* const [key, value] = pair.split("="): the first two pieces of the split,
\* value undefined when there is no second piece.
PairKey(pair) == split(pair, "=")[1]

PairValue(pair) ==
    LET parts == split(pair, "=")
    IN  IF Len(parts) < 2 THEN Undefined ELSE Some(parts[2])

\* params[decodeURIComponent(key)] = value ? decodeURIComponent(value) : "",
\* done only for a non-empty key; a falsy value (undefined or the empty
\* string) is stored as "". An error thrown by decodeURIComponent ends the
\* whole forEach.
StorePair(acc, key, value) ==
    IF ~acc.ok \/ key = <<>> THEN acc
    ELSE LET k == decodeURIComponent(key)
         IN  IF ~k.ok THEN k
             ELSE IF value = Undefined \/ value = Some(<<>>)
                  THEN Ok((k.value :> <<>>) @@ acc.value)
                  ELSE LET v == decodeURIComponent(value[1])
                       IN  IF ~v.ok THEN v
                           ELSE Ok((k.value :> v.value) @@ acc.value)

\* The body of the forEach callback, applied to the mapping built so far.
ParsePair(acc, pair) == StorePair(acc, PairKey(pair), PairValue(pair))

RECURSIVE ParsePairs(_, _, _)
ParsePairs(acc, pairs, i) ==
    IF i > Len(pairs) THEN acc
    ELSE ParsePairs(ParsePair(acc, pairs[i]), pairs, i + 1)

parseQueryString(queryString) ==
    ParsePairs(Ok(EmptyParams), split(queryString, "&"), 1)

(***************************************************************************)
(* paysera-request-builder.ts: URL-safe base64 and the signature           *)
(***************************************************************************)

Base64Alphabet ==
    <<"A", "B", "C", "D", "E", "F", "G", "H", "I", "J", "K", "L", "M", "N", "O",
      "P", "Q", "R", "S", "T", "U", "V", "W", "X", "Y", "Z", "a", "b", "c", "d",
      "e", "f", "g", "h", "i", "j", "k", "l", "m", "n", "o", "p", "q", "r", "s",
      "t", "u", "v", "w", "x", "y", "z", "0", "1", "2", "3", "4", "5", "6", "7",
      "8", "9", "+", "/">>

B64Char(n) == Base64Alphabet[n + 1]

IsB64Char(c) == \E i \in 1..64 : Base64Alphabet[i] = c

B64Val(c) == (CHOOSE i \in 1..64 : Base64Alphabet[i] = c) - 1

\* The concatenation of parts[lo..hi].
RECURSIVE FlattenRange(_, _, _)
FlattenRange(parts, lo, hi) ==
    IF lo > hi THEN <<>>
    ELSE IF lo = hi THEN parts[lo]
    ELSE LET mid == (lo + hi) \div 2
         IN  FlattenRange(parts, lo, mid) \o FlattenRange(parts, mid + 1, hi)

Flatten(parts) == FlattenRange(parts, 1, Len(parts))

\* Characters beside ASCII: one that UTF-8 writes in two bytes, the
\* replacement character, and an unpaired surrogate, which a JavaScript
\* string may hold and UTF-8 cannot write.
E_ACUTE == "<U+00E9>"

REPLACEMENT == "<U+FFFD>"

UNPAIRED_SURROGATE == "<U+D800>"

IsAscii(c) == \E i \in 1..Len(Ascii) : Ascii[i] = c

\* The UTF-8 form of a character; an unpaired surrogate is written as the
\* replacement character.
CharBytes(c) ==
    IF c = E_ACUTE THEN <<195, 169>>
    ELSE IF c \in {REPLACEMENT, UNPAIRED_SURROGATE} THEN <<239, 191, 189>>
    ELSE <<Code(c)>>

\* Buffer.from(str, "utf-8")
Utf8Bytes(str) ==
    IF \A i \in 1..Len(str) : IsAscii(str[i])
    THEN [i \in 1..Len(str) |-> Code(str[i])]
    ELSE Flatten([i \in 1..Len(str) |-> CharBytes(str[i])])

\* buffer.toString("utf-8"): an ASCII byte is its character (NonPrintable
\* for a control character), the two sequences above are theirs, and every
\* other byte, which starts no sequence the model knows, is read as the
\* replacement character.
Utf8String(bytes) ==
    IF \A i \in 1..Len(bytes) : bytes[i] < 128
    THEN [i \in 1..Len(bytes) |-> Chr(bytes[i])]
    ELSE
    LET n == Len(bytes)
        Lead2(i) == i + 1 <= n /\ bytes[i] = 195 /\ bytes[i + 1] = 169
        Lead3(i) == /\ i + 2 <= n
                    /\ bytes[i] = 239 /\ bytes[i + 1] = 191 /\ bytes[i + 2] = 189
        Continues(i) == \/ i > 1 /\ (Lead2(i - 1) \/ Lead3(i - 1))
                        \/ i > 2 /\ Lead3(i - 2)
        starts == Ascending({i \in 1..n : ~Continues(i)})
    IN  [k \in 1..Len(starts) |->
            IF Lead2(starts[k]) THEN E_ACUTE
            ELSE IF bytes[starts[k]] >= 128 THEN REPLACEMENT
            ELSE Chr(bytes[starts[k]])]

\* buffer.toString("base64"): three bytes give four characters, the last
\* group is padded with "=". Character j of the output belongs to the group
\* of bytes that starts at byte 3 * ((j - 1) \div 4) + 1.
Base64Encode(b) ==
    LET byte(i) == IF i <= Len(b) THEN b[i] ELSE 0
    IN  [j \in 1..(4 * ((Len(b) + 2) \div 3)) |->
            LET i == 3 * ((j - 1) \div 4) + 1
                r == (j - 1) % 4
            IN  IF r = 0 THEN B64Char(byte(i) \div 4)
                ELSE IF r = 1
                THEN B64Char((byte(i) % 4) * 16 + byte(i + 1) \div 16)
                ELSE IF r = 2
                THEN IF i + 1 > Len(b) THEN "="
                     ELSE B64Char((byte(i + 1) % 16) * 4 + byte(i + 2) \div 64)
                ELSE IF i + 2 > Len(b) THEN "="
                     ELSE B64Char(byte(i + 2) % 64)]

\* Buffer.from(str, "base64") reads leniently: it stops at the first "=" and
\* skips every character that is not of the alphabet.
Sextets(str) ==
    LET pads == {i \in 1..Len(str) : str[i] = "="}
        stop == IF pads = {} THEN Len(str) + 1
                ELSE CHOOSE i \in pads : \A j \in pads : i <= j
        read == SelectSeq(SubSeq(str, 1, stop - 1), IsB64Char)
    IN  [k \in 1..Len(read) |-> B64Val(read[k])]

\* Four sextets give three bytes; a last group of two gives one byte, of three
\* two bytes, and a lone last sextet gives none.
Base64Decode(x) ==
    LET last == Len(x) % 4
        n    == 3 * (Len(x) \div 4)
                + (IF last = 2 THEN 1 ELSE IF last = 3 THEN 2 ELSE 0)
    IN  [k \in 1..n |->
            LET i == 4 * ((k - 1) \div 3) + 1
                r == (k - 1) % 3
            IN  IF r = 0 THEN x[i] * 4 + x[i + 1] \div 16
                ELSE IF r = 1 THEN (x[i + 1] % 16) * 16 + x[i + 2] \div 4
                ELSE (x[i + 2] % 4) * 64 + x[i + 3]]

\* str.replace(/x/g, y) for single characters.
ReplaceAll(str, x, y) == [i \in 1..Len(str) |-> IF str[i] = x THEN y ELSE str[i]]

toUrlSafeBase64_Standard(str) == Base64Encode(Utf8Bytes(str))

toUrlSafeBase64(str) ==
    ReplaceAll(ReplaceAll(Base64Encode(Utf8Bytes(str)), "/", "_"), "+", "-")

fromUrlSafeBase64(str) ==
    LET standardBase64 == ReplaceAll(ReplaceAll(str, "_", "/"), "-", "+")
    IN  Utf8String(Base64Decode(Sextets(standardBase64)))

\* createHash("md5").update(x).digest("hex") is the library's; the model puts
\* in its place a 128-bit digest that is computed, not looked up: byte j of
\* the digest is the sum, modulo 256, of the input bytes at the positions
\* j, j + 16, j + 32, ...; it is rendered as 32 lowercase hex digits. It has
\* no collision among inputs of at most DigestBytes bytes.
DigestBytes == 16

RECURSIVE ColumnSum(_, _)
ColumnSum(b, j) == IF j > Len(b) THEN 0 ELSE (b[j] + ColumnSum(b, j + DigestBytes)) % 256

Md5Hex(x) ==
    LET b == Utf8Bytes(x)
    IN  [k \in 1..(2 * DigestBytes) |->
            LET byte == ColumnSum(b, (k + 1) \div 2)
            IN  IF k % 2 = 1 THEN HexDigits[(byte \div 16) + 1]
                ELSE HexDigits[(byte % 16) + 1]]

generateSignature_SecretFirst(data, password) == Md5Hex(password \o data)
generateSignature(data, password) == Md5Hex(data \o password)

(***************************************************************************)
(* paysera-callback-handler.ts: verifySignature, decodeCallbackData        *)
(***************************************************************************)

verifySignature_CaseSensitive(data, ss1, password) ==
    generateSignature(data, password) = ss1

verifySignature(data, ss1, password) ==
    LET expectedSignature == generateSignature(data, password)
    IN  toLowerCase(expectedSignature) = toLowerCase(ss1)

decodeCallbackData(data) == parseQueryString(fromUrlSafeBase64(data))

(***************************************************************************)
(* paysera-callback-handler.ts: parseCallbackData                          *)
(***************************************************************************)

K_projectid == <<"p", "r", "o", "j", "e", "c", "t", "i", "d">>
K_orderid   == <<"o", "r", "d", "e", "r", "i", "d">>
K_amount    == <<"a", "m", "o", "u", "n", "t">>
K_currency  == <<"c", "u", "r", "r", "e", "n", "c", "y">>
K_status    == <<"s", "t", "a", "t", "u", "s">>
K_requestid == <<"r", "e", "q", "u", "e", "s", "t", "i", "d">>
K_paytext   == <<"p", "a", "y", "t", "e", "x", "t">>
K_name      == <<"n", "a", "m", "e">>
K_surename  == <<"s", "u", "r", "e", "n", "a", "m", "e">>
K_payment   == <<"p", "a", "y", "m", "e", "n", "t">>
K_country   == <<"c", "o", "u", "n", "t", "r", "y">>
K_test      == <<"t", "e", "s", "t">>

required_AmountFirst ==
    <<K_amount, K_projectid, K_orderid, K_currency, K_status, K_requestid>>

required ==
    <<K_projectid, K_orderid, K_amount, K_currency, K_status, K_requestid>>

\* parseInt(str, 10): leading blanks are skipped, a sign is read, then the
\* longest run of decimal digits; with no digit the result is NaN. Whatever
\* follows the digits is ignored.
RECURSIVE SkipBlanks(_, _)
SkipBlanks(str, i) ==
    IF i <= Len(str) /\ str[i] = " " THEN SkipBlanks(str, i + 1) ELSE i

RECURSIVE DigitsEnd(_, _)
DigitsEnd(str, i) ==
    IF i <= Len(str) /\ IsDigit(str[i]) THEN DigitsEnd(str, i + 1) ELSE i

RECURSIVE DigitsValue(_, _, _)
DigitsValue(str, i, j) ==
    IF j < i THEN 0 ELSE 10 * DigitsValue(str, i, j - 1) + HexVal(str[j])

NaN == [nan |-> TRUE, n |-> 0]

Number(n) == [nan |-> FALSE, n |-> n]

isNaN(x) == x.nan

\* parseInt without the sign: what the code would read with a parser that
\* takes digits only.
parseInt_Unsigned(str) ==
    LET start == SkipBlanks(str, 1)
        end   == DigitsEnd(str, start)
    IN  IF end = start THEN NaN
        ELSE Number(DigitsValue(str, start, end - 1))
parseInt(str) ==
    LET start  == SkipBlanks(str, 1)
        signed == start <= Len(str) /\ str[start] \in {"+", "-"}
        first  == IF signed THEN start + 1 ELSE start
        end    == DigitsEnd(str, first)
    IN  IF end = first THEN NaN
        ELSE IF signed /\ str[start] = "-"
             THEN Number(0 - DigitsValue(str, first, end - 1))
             ELSE Number(DigitsValue(str, first, end - 1))

\* rawData.field: the value when the key is present, undefined otherwise.
Field(rawData, key) ==
    IF key \in DOMAIN rawData THEN Some(rawData[key]) ELSE Undefined

MissingFields(rawData, fields) ==
    {i \in 1..Len(fields) : fields[i] \notin DOMAIN rawData}

FirstMissing(rawData, fields) ==
    LET missing == MissingFields(rawData, fields)
    IN  fields[CHOOSE i \in missing : \A j \in missing : i <= j]

\* parseCallbackData with test read as a number.
parseCallbackData_TestParsed(rawData) ==
    IF MissingFields(rawData, required) # {}
    THEN Throw("PayseraCallbackDataError", "Missing required field: ",
               FirstMissing(rawData, required))
    ELSE
    LET amount == parseInt(rawData[K_amount])
        status == parseInt(rawData[K_status])
        test   == IF K_test \in DOMAIN rawData
                  THEN parseInt(rawData[K_test]) ELSE NaN
    IN  IF isNaN(amount)
        THEN Throw("PayseraCallbackDataError", "Invalid amount value", <<>>)
        ELSE IF isNaN(status)
        THEN Throw("PayseraCallbackDataError", "Invalid status value", <<>>)
        ELSE Ok([projectid |-> rawData[K_projectid],
                 orderid   |-> rawData[K_orderid],
                 amount    |-> amount.n,
                 currency  |-> rawData[K_currency],
                 status    |-> status.n,
                 requestid |-> rawData[K_requestid],
                 paytext   |-> Field(rawData, K_paytext),
                 name      |-> Field(rawData, K_name),
                 surename  |-> Field(rawData, K_surename),
                 payment   |-> Field(rawData, K_payment),
                 country   |-> Field(rawData, K_country),
                 test      |-> IF isNaN(test) THEN Undefined
                               ELSE IF test.n = 1 THEN Some(1)
                               ELSE IF test.n = 0 THEN Some(0)
                               ELSE Undefined])
parseCallbackData(rawData) ==
    IF MissingFields(rawData, required) # {}
    THEN Throw("PayseraCallbackDataError", "Missing required field: ",
               FirstMissing(rawData, required))
    ELSE
    LET amount == parseInt(rawData[K_amount])
        status == parseInt(rawData[K_status])
        test   == Field(rawData, K_test)
    IN  IF isNaN(amount)
        THEN Throw("PayseraCallbackDataError", "Invalid amount value", <<>>)
        ELSE IF isNaN(status)
        THEN Throw("PayseraCallbackDataError", "Invalid status value", <<>>)
        ELSE Ok([projectid |-> rawData[K_projectid],
                 orderid   |-> rawData[K_orderid],
                 amount    |-> amount.n,
                 currency  |-> rawData[K_currency],
                 status    |-> status.n,
                 requestid |-> rawData[K_requestid],
                 paytext   |-> Field(rawData, K_paytext),
                 name      |-> Field(rawData, K_name),
                 surename  |-> Field(rawData, K_surename),
                 payment   |-> Field(rawData, K_payment),
                 country   |-> Field(rawData, K_country),
                 test      |-> IF test = Some(<<"1">>) THEN Some(1)
                               ELSE IF test = Some(<<"0">>) THEN Some(0)
                               ELSE Undefined])

(***************************************************************************)
(* paysera-callback-handler.ts: verifyAndDecodeCallback.  Beside the       *)
(* result, the model records which of the module's functions ran, in       *)
(* order (calls): that is how "verified before decoded" is observed.       *)
(***************************************************************************)

Ran(result, calls) == [result |-> result, calls |-> calls]

DecodeThenParse(data, calls) ==
    LET decodedData == decodeCallbackData(data)
    IN  IF ~decodedData.ok
        THEN Ran(decodedData, calls \o <<"decodeCallbackData">>)
        ELSE Ran(parseCallbackData(decodedData.value),
                 calls \o <<"decodeCallbackData", "parseCallbackData">>)

\* The steps of verifyAndDecodeCallback in another order, or without one of
\* them: what the code would be with the checks swapped.
verifyAndDecodeCallback_DecodeFirst(rawCallback, password) ==
    LET data == rawCallback.data
        ss1  == rawCallback.ss1
        done == DecodeThenParse(data, <<>>)
    IN  IF data = <<>> \/ ss1 = <<>>
        THEN Ran(Throw("PayseraCallbackDataError",
                       "Missing data or signature in callback", <<>>), <<>>)
        ELSE IF ~verifySignature(data, ss1, password)
        THEN Ran(Throw("PayseraSignatureError",
                       "Invalid callback signature", <<>>),
                 done.calls \o <<"verifySignature">>)
        ELSE Ran(done.result, done.calls \o <<"verifySignature">>)

verifyAndDecodeCallback_SignatureFirst(rawCallback, password) ==
    LET data == rawCallback.data
        ss1  == rawCallback.ss1
    IN  IF ~verifySignature(data, ss1, password)
        THEN Ran(Throw("PayseraSignatureError",
                       "Invalid callback signature", <<>>),
                 <<"verifySignature">>)
        ELSE IF data = <<>> \/ ss1 = <<>>
        THEN Ran(Throw("PayseraCallbackDataError",
                       "Missing data or signature in callback", <<>>),
                 <<"verifySignature">>)
        ELSE DecodeThenParse(data, <<"verifySignature">>)

verifyAndDecodeCallback(rawCallback, password) ==
    LET data == rawCallback.data
        ss1  == rawCallback.ss1
    IN  IF data = <<>> \/ ss1 = <<>>
        THEN Ran(Throw("PayseraCallbackDataError",
                       "Missing data or signature in callback", <<>>), <<>>)
        ELSE IF ~verifySignature(data, ss1, password)
        THEN Ran(Throw("PayseraSignatureError",
                       "Invalid callback signature", <<>>),
                 <<"verifySignature">>)
        ELSE DecodeThenParse(data, <<"verifySignature">>)

(***************************************************************************)
(* paysera-types.ts and paysera-client.ts                                  *)
(***************************************************************************)

PayseraStatus ==
    [PENDING |-> 0, SUCCESS |-> 1, ACCEPTED_NOT_EXECUTED |-> 2,
     ADDITIONAL_INFO_REQUIRED |-> 3]

\* The constructor with the password left unchecked.
PayseraClient_PasswordOptional(config) ==
    IF config.projectId = <<>>
    THEN Throw("PayseraConfigError", "Project ID and password are required", <<>>)
    ELSE Ok([config |-> config])

\* new PayseraClient(config): the client holds the configuration, or the
\* constructor throws.
PayseraClient(config) ==
    IF config.projectId = <<>> \/ config.password = <<>>
    THEN Throw("PayseraConfigError", "Project ID and password are required", <<>>)
    ELSE Ok([config |-> config])

\* processCallback with the payload's project compared with the client's.
processCallback_OwnProjectOnly(client, rawCallback) ==
    LET ran == verifyAndDecodeCallback(rawCallback, client.config.password)
    IN  IF ran.result.ok /\ ran.result.value.projectid # client.config.projectId
        THEN Ran(Throw("PayseraCallbackDataError", "Invalid callback data", <<>>),
                 ran.calls)
        ELSE ran

processCallback(client, rawCallback) ==
    verifyAndDecodeCallback(rawCallback, client.config.password)

isPaymentSuccessful(callbackData) ==
    callbackData.status = PayseraStatus.SUCCESS

isPaymentPending_OnlyPending(callbackData) ==
    callbackData.status = PayseraStatus.PENDING

isPaymentPending(callbackData) ==
    \/ callbackData.status = PayseraStatus.PENDING
    \/ callbackData.status = PayseraStatus.ACCEPTED_NOT_EXECUTED

(***************************************************************************)
(* Specifications of the codec's functions: Init draws the arguments, the  *)
(* action applies the function and keeps what it returned or threw.  The   *)
(* endpoint takes no part in them.                                         *)
(***************************************************************************)

Strings(alphabet, maxLen) == UNION {[1..k -> alphabet] : k \in 0..maxLen}

NoRequest ==
    [action |-> Undefined, transactionId |-> Undefined,
     saleorApiUrl |-> Undefined, data |-> Undefined, ss1 |-> Undefined]

NoEnv == [apl |-> "", app |-> "", report |-> ""]

NotCalling == [op |-> "none"]

EndpointIdle ==
    /\ pc = "idle"
    /\ req = NoRequest
    /\ env = NoEnv
    /\ res = Undefined
    /\ reports = <<>>
    /\ uuidClock = 0
    /\ deliveries = 0

endpointVars == <<pc, req, env, res, reports, uuidClock, deliveries>>

\* Applies a function once: outcome goes from undefined to what it gave.
Apply(op, result) ==
    /\ call.op = op
    /\ outcome = Undefined
    /\ outcome' = Some(result)
    /\ UNCHANGED <<call, endpointVars>>

\* ---- parseQueryString ----

MaxQueryLen == 4

QueryAlphabet == {"a", "=", "&", "%", "3", "D"}

InitQuery ==
    /\ call \in {[op |-> "parseQueryString", queryString |-> q] :
                    q \in Strings(QueryAlphabet, MaxQueryLen)}
    /\ outcome = Undefined
    /\ EndpointIdle

CallParseQueryString ==
    Apply("parseQueryString", parseQueryString(call.queryString))

SpecQuery == InitQuery /\ [][CallParseQueryString]_vars

\* ---- verifySignature ----

MaxSignedLen == 2

\* "j" is byte 6a and "z" is byte 7a: their digests hold hex letters.
SignedAlphabet == {"j", "z"}

Casings == {"lower", "upper", "mixed"}

\* A signature as the gateway may render it: all lowercase, all uppercase, or
\* every other hex digit pair in uppercase.
Recase(sig, casing) ==
    IF casing = "upper" THEN toUpperCase(sig)
    ELSE IF casing = "mixed"
    THEN [i \in 1..Len(sig) |-> IF i % 4 = 2 THEN UpperChar(sig[i]) ELSE sig[i]]
    ELSE sig

\* The signature presented was computed by a signer over (signedData,
\* signedPassword), which may or may not be the verifier's (data, password).
InitSignature ==
    /\ call \in {[op |-> "verifySignature", data |-> d, password |-> p,
                  signedData |-> sd, signedPassword |-> sp, casing |-> c,
                  ss1 |-> Recase(generateSignature(sd, sp), c)] :
                    d \in Strings(SignedAlphabet, MaxSignedLen),
                    p \in Strings(SignedAlphabet, MaxSignedLen) \ {<<>>},
                    sd \in Strings(SignedAlphabet, MaxSignedLen),
                    sp \in Strings(SignedAlphabet, MaxSignedLen) \ {<<>>},
                    c \in Casings}
    /\ outcome = Undefined
    /\ EndpointIdle

CallVerifySignature ==
    Apply("verifySignature", verifySignature(call.data, call.ss1, call.password))

SpecSignature == InitSignature /\ [][CallVerifySignature]_vars

\* ---- parseCallbackData ----

MaxNumberLen == 2

NumberAlphabet == {"1", "a", "-"}

\* The keys of the mapping that are not parsed as numbers all hold "x".
TextKeys == {K_projectid, K_orderid, K_currency, K_requestid}

RawData(present, amount, status) ==
    [k \in present
        \cup (IF amount = Undefined THEN {} ELSE {K_amount})
        \cup (IF status = Undefined THEN {} ELSE {K_status}) |->
        IF k = K_amount THEN amount[1]
        ELSE IF k = K_status THEN status[1]
        ELSE <<"x">>]

OptionalNumbers ==
    {Undefined} \cup {Some(n) : n \in Strings(NumberAlphabet, MaxNumberLen)}

InitEvent ==
    /\ call \in {[op |-> "parseCallbackData", rawData |-> RawData(present, a, st)] :
                    present \in SUBSET TextKeys,
                    a \in OptionalNumbers, st \in OptionalNumbers}
    /\ outcome = Undefined
    /\ EndpointIdle

CallParseCallbackData ==
    Apply("parseCallbackData", parseCallbackData(call.rawData))

SpecEvent == InitEvent /\ [][CallParseCallbackData]_vars

\* ---- isPaymentSuccessful, isPaymentPending ----

MaxStatus == 30

EventWithStatus(status) ==
    [projectid |-> <<"1">>, orderid |-> <<"o">>, amount |-> 1000,
     currency |-> <<"E", "U", "R">>, status |-> status, requestid |-> <<"r">>,
     paytext |-> Undefined, name |-> Undefined, surename |-> Undefined,
     payment |-> Undefined, country |-> Undefined, test |-> Undefined]

InitClassify ==
    /\ call \in {[op |-> "classify", callbackData |-> EventWithStatus(st)] :
                    st \in (0 - MaxStatus)..MaxStatus}
    /\ outcome = [successful |-> Undefined, pending |-> Undefined]
    /\ EndpointIdle

CallIsPaymentSuccessful ==
    /\ call.op = "classify"
    /\ outcome.successful = Undefined
    /\ outcome' = [outcome EXCEPT
                      !.successful = Some(isPaymentSuccessful(call.callbackData))]
    /\ UNCHANGED <<call, endpointVars>>

CallIsPaymentPending ==
    /\ call.op = "classify"
    /\ outcome.pending = Undefined
    /\ outcome' = [outcome EXCEPT
                      !.pending = Some(isPaymentPending(call.callbackData))]
    /\ UNCHANGED <<call, endpointVars>>

NextClassify == CallIsPaymentSuccessful \/ CallIsPaymentPending

SpecClassify == InitClassify /\ [][NextClassify]_vars

\* ---- PayseraClient.processCallback ----

MaxGarbageLen == 2

\* Characters of payloads that are not base64 of a query string: "YQ" is
\* base64 of "a", "!" is not of the base64 alphabet.
GarbageAlphabet == {"Y", "Q", "!"}

StoredConfig ==
    [projectId |-> <<"1">>, password |-> <<"p", "w">>, testMode |-> TRUE]

OtherPassword == <<"p", "x">>

Pair(key, value) == key \o <<"=">> \o value

Join(pairs) ==
    LET RECURSIVE JoinFrom(_)
        JoinFrom(i) ==
            IF i > Len(pairs) THEN <<>>
            ELSE IF i = Len(pairs) THEN pairs[i]
            ELSE pairs[i] \o <<"&">> \o JoinFrom(i + 1)
    IN  JoinFrom(1)

\* The query string the gateway sends for a payment: orderid may be left out
\* and amount and status may hold any text.
GatewayQuery(withOrderid, amount, status) ==
    Join(<<Pair(K_projectid, <<"1">>)>>
         \o (IF withOrderid THEN <<Pair(K_orderid, <<"o">>)>> ELSE <<>>)
         \o <<Pair(K_amount, amount),
              Pair(K_currency, <<"E", "U", "R">>),
              Pair(K_status, status),
              Pair(K_requestid, <<"r">>)>>)

AmountTexts == {<<"1", "0", "0", "0">>, <<"a", "b", "c">>}

StatusTexts == {<<"0">>, <<"1">>, <<"2">>, <<"3">>, <<"7">>}

\* A query string with an escape that decodeURIComponent rejects.
BadEscapeQuery == Pair(K_paytext, <<"%", "z", "z">>)

GatewayQueries ==
    {GatewayQuery(o, a, st) :
        o \in BOOLEAN, a \in AmountTexts, st \in StatusTexts}
    \cup {BadEscapeQuery}

Payloads ==
    Strings(GarbageAlphabet, MaxGarbageLen)
    \cup {toUrlSafeBase64(q) : q \in GatewayQueries}

\* Signatures that may come with a payload: none, the right one in lowercase
\* or uppercase, one made with another password, and one that is no digest.
SignaturesFor(data) ==
    {<<>>,
     generateSignature(data, StoredConfig.password),
     toUpperCase(generateSignature(data, StoredConfig.password)),
     generateSignature(data, OtherPassword),
     <<"z", "z">>}

RawCallbacks ==
    UNION {{[data |-> d, ss1 |-> sig] : sig \in SignaturesFor(d)} : d \in Payloads}

InitCallback ==
    /\ call \in {[op |-> "processCallback",
                  client |-> PayseraClient(StoredConfig).value,
                  rawCallback |-> rc] : rc \in RawCallbacks}
    /\ outcome = Undefined
    /\ EndpointIdle

CallProcessCallback ==
    Apply("processCallback", processCallback(call.client, call.rawCallback))

SpecCallback == InitCallback /\ [][CallProcessCallback]_vars

(***************************************************************************)
(* paysera-config.ts: the configuration stored in the app's private        *)
(* metadata.  A metadata value is JSON text.                               *)
(***************************************************************************)

PAYSERA_CONFIG_KEY == "paysera_config"

JsonString(s) == [type |-> "string", s |-> s]

JsonBoolean(b) == [type |-> "boolean", b |-> b]

K_projectId == <<"p", "r", "o", "j", "e", "c", "t", "I", "d">>

K_password == <<"p", "a", "s", "s", "w", "o", "r", "d">>

K_testMode == <<"t", "e", "s", "t", "M", "o", "d", "e">>

\* A string put between quotes as it is.
QuoteJson_Unescaped(str) == <<"\"">> \o str \o <<"\"">>
\* JSON.stringify of a string: in quotes, with the quote and the backslash
\* escaped and an unpaired surrogate written as \ud800.
QuoteJson(str) ==
    <<"\"">>
    \o Flatten([i \in 1..Len(str) |->
                   IF str[i] = "\"" THEN <<"\\", "\"">>
                   ELSE IF str[i] = "\\" THEN <<"\\", "\\">>
                   ELSE IF str[i] = UNPAIRED_SURROGATE
                   THEN <<"\\", "u", "d", "8", "0", "0">>
                   ELSE <<str[i]>>])
    \o <<"\"">>

\* JSON.stringify of a configuration: its properties in the order of the
\* object literal.
JSON_stringify(config) ==
    <<"{">> \o QuoteJson(K_projectId) \o <<":">> \o QuoteJson(config.projectId)
    \o <<",">> \o QuoteJson(K_password) \o <<":">> \o QuoteJson(config.password)
    \o <<",">> \o QuoteJson(K_testMode) \o <<":">>
    \o (IF config.testMode THEN <<"t", "r", "u", "e">>
        ELSE <<"f", "a", "l", "s", "e">>)
    \o <<"}">>

\* The position of the quote that closes the string whose characters start
\* at j, or 0 when there is none.
RECURSIVE StringEnd(_, _)
StringEnd(text, j) ==
    IF j > Len(text) THEN 0
    ELSE IF text[j] = "\"" THEN j
    ELSE IF text[j] = "\\" THEN StringEnd(text, j + 2)
    ELSE StringEnd(text, j + 1)

BadEscape == "<bad escape>"

\* The characters of a string between its quotes, escapes resolved.
RECURSIVE UnquoteJson(_, _)
UnquoteJson(body, i) ==
    IF i > Len(body) THEN <<>>
    ELSE IF body[i] # "\\" THEN <<body[i]>> \o UnquoteJson(body, i + 1)
    ELSE IF i + 1 <= Len(body) /\ body[i + 1] \in {"\"", "\\"}
    THEN <<body[i + 1]>> \o UnquoteJson(body, i + 2)
    ELSE IF /\ i + 5 <= Len(body)
            /\ SubSeq(body, i + 1, i + 5) = <<"u", "d", "8", "0", "0">>
    THEN <<UNPAIRED_SURROGATE>> \o UnquoteJson(body, i + 6)
    ELSE <<BadEscape>>

NoJson == [valid |-> FALSE, parsed |-> <<>>]

\* The members of an object from position i, which follows "{" or ",".
RECURSIVE ParseMembers(_, _, _)
ParseMembers(text, i, members) ==
    LET keyEnd   == StringEnd(text, i + 1)
        key      == UnquoteJson(SubSeq(text, i + 1, keyEnd - 1), 1)
        v        == keyEnd + 2
        valueEnd == IF v <= Len(text) /\ text[v] = "\"" THEN StringEnd(text, v + 1)
                    ELSE IF v + 3 <= Len(text)
                            /\ SubSeq(text, v, v + 3) = <<"t", "r", "u", "e">>
                    THEN v + 3
                    ELSE IF v + 4 <= Len(text)
                            /\ SubSeq(text, v, v + 4) = <<"f", "a", "l", "s", "e">>
                    THEN v + 4
                    ELSE 0
        value    == IF text[v] = "\""
                    THEN JsonString(UnquoteJson(SubSeq(text, v + 1, valueEnd - 1), 1))
                    ELSE JsonBoolean(text[v] = "t")
        BadText(str) == \E k \in 1..Len(str) : str[k] = BadEscape
    IN  IF i > Len(text) \/ text[i] # "\"" \/ keyEnd = 0 THEN NoJson
        ELSE IF keyEnd + 1 > Len(text) \/ text[keyEnd + 1] # ":" THEN NoJson
        ELSE IF valueEnd = 0 \/ valueEnd + 1 > Len(text) THEN NoJson
        ELSE IF BadText(key) \/ (value.type = "string" /\ BadText(value.s))
        THEN NoJson
        ELSE IF text[valueEnd + 1] = "}"
        THEN IF valueEnd + 1 = Len(text)
             THEN [valid |-> TRUE,
                   parsed |-> Append(members, [key |-> key, value |-> value])]
             ELSE NoJson
        ELSE IF text[valueEnd + 1] = ","
        THEN ParseMembers(text, valueEnd + 2,
                          Append(members, [key |-> key, value |-> value]))
        ELSE NoJson

\* JSON.parse, for the texts of the model: an object whose members are
\* strings and booleans, written without white space.  Every other text of
\* the model is not JSON at all.
JSON_parse(text) ==
    IF Len(text) < 2 \/ text[1] # "{" THEN NoJson
    ELSE IF text = <<"{", "}">> THEN [valid |-> TRUE, parsed |-> <<>>]
    ELSE ParseMembers(text, 2, <<>>)

NotJson == <<"n", "o", "t", " ", "v", "a", "l", "i", "d", " ", "j", "s", "o", "n">>

\* object[key]: the value of the last member with the key, or undefined.
Member(object, key) ==
    LET at == {i \in 1..Len(object) : object[i].key = key}
    IN  IF at = {} THEN Undefined
        ELSE Some(object[CHOOSE i \in at : \A j \in at : j <= i].value)

\* The schema without the minimum lengths.
payseraConfigSchema_AnyLength(parsed) ==
    LET projectId == Member(parsed, K_projectId)
        password  == Member(parsed, K_password)
        testMode  == Member(parsed, K_testMode)
        IsText(x) == x # Undefined /\ x[1].type = "string"
    IN  IF \/ ~IsText(projectId) \/ ~IsText(password)
           \/ testMode # Undefined /\ testMode[1].type # "boolean"
        THEN [success |-> FALSE, data |-> <<>>]
        ELSE [success |-> TRUE,
              data |-> [projectId |-> projectId[1].s,
                        password |-> password[1].s,
                        testMode |-> IF testMode = Undefined THEN TRUE
                                     ELSE testMode[1].b]]
\* payseraConfigSchema.safeParse: projectId and password are strings of at
\* least one character, testMode is a boolean and true when left out; the
\* other members are dropped.
payseraConfigSchema(parsed) ==
    LET projectId == Member(parsed, K_projectId)
        password  == Member(parsed, K_password)
        testMode  == Member(parsed, K_testMode)
        IsText(x) == x # Undefined /\ x[1].type = "string" /\ x[1].s # <<>>
    IN  IF \/ ~IsText(projectId) \/ ~IsText(password)
           \/ testMode # Undefined /\ testMode[1].type # "boolean"
        THEN [success |-> FALSE, data |-> <<>>]
        ELSE [success |-> TRUE,
              data |-> [projectId |-> projectId[1].s,
                        password |-> password[1].s,
                        testMode |-> IF testMode = Undefined THEN TRUE
                                     ELSE testMode[1].b]]

\* privateMetadata is undefined (null or undefined) or a list of items.
getPayseraConfigFromMetadata(privateMetadata) ==
    IF privateMetadata = Undefined \/ privateMetadata = Some(<<>>)
    THEN Throw("PayseraConfigError", "No private metadata found", <<>>)
    ELSE
    LET items == privateMetadata[1]
        found == {i \in 1..Len(items) : items[i].key = PAYSERA_CONFIG_KEY}
    IN  IF found = {}
        THEN Throw("PayseraConfigError",
                   "Paysera configuration not found in metadata", <<>>)
        ELSE
        LET configEntry == items[CHOOSE i \in found : \A j \in found : i <= j]
            json == JSON_parse(configEntry.value)
        IN  IF ~json.valid
            THEN Throw("PayseraConfigError",
                       "Invalid JSON in Paysera configuration", <<>>)
            ELSE
            LET result == payseraConfigSchema(json.parsed)
            IN  IF ~result.success
                THEN Throw("PayseraConfigError",
                           "Invalid Paysera configuration: ", <<>>)
                ELSE Ok(result.data)

serializePayseraConfig(config) ==
    [key |-> PAYSERA_CONFIG_KEY, value |-> JSON_stringify(config)]

(***************************************************************************)
(* pages/api/paysera/callback.ts: the callback endpoint.                   *)
(*                                                                         *)
(* A request is handled in steps, one for each stretch of the handler      *)
(* between two awaits.  Requests are taken one at a time: an invocation    *)
(* keeps nothing in memory that another one reads (each builds its own     *)
(* GraphQL client and PayseraClient), so invocations meet only in the      *)
(* platform's list of reported events.                                     *)
(***************************************************************************)

MaxDeliveries == 2

Respond(status, body) == Some([status |-> status, body |-> body, location |-> ""])

\* res.redirect(302, url)
Redirect(url) == Some([status |-> 302, body |-> "", location |-> url])

\* What Next.js answers when the handler throws.
Unhandled == Some([status |-> 500, body |-> "Internal Server Error", location |-> ""])

\* process.env.STOREFRONT_URL is taken as unset.
getRedirectUrl(success) ==
    IF success THEN "/checkout/success" ELSE "/checkout/cancel"

Actions == {Undefined, Some("accept"), Some("cancel"), Some("callback"), Some("refund")}

TransactionIds == {Undefined, Some("T1")}

SaleorApiUrls == {Undefined, Some(<<"s">>), Some(<<"%">>)}

MissingOrderidQuery == GatewayQuery(FALSE, <<"1", "0", "0", "0">>, <<"1">>)

PaymentQuery(status) == GatewayQuery(TRUE, <<"1", "0", "0", "0">>, status)

\* A payment of another project and another order than any this app has
\* made.
ForeignPaymentQuery ==
    Join(<<Pair(K_projectid, <<"9">>), Pair(K_orderid, <<"x">>),
           Pair(K_amount, <<"2", "5", "0", "0">>),
           Pair(K_currency, <<"E", "U", "R">>), Pair(K_status, <<"1">>),
           Pair(K_requestid, <<"r">>)>>)

Signed(query, password) ==
    LET data == toUrlSafeBase64(query)
    IN  [data |-> Some(data), ss1 |-> Some(generateSignature(data, password))]

\* What the gateway, or anyone else, may send as data and ss1: a payment in
\* each status signed with the stored password, malformed payloads signed
\* with it, a payment of another project signed with it, a payment signed
\* with another password, and nothing.
CallbackParams ==
    {Signed(PaymentQuery(st), StoredConfig.password) : st \in StatusTexts}
    \cup {Signed(MissingOrderidQuery, StoredConfig.password),
          Signed(BadEscapeQuery, StoredConfig.password),
          Signed(ForeignPaymentQuery, StoredConfig.password),
          Signed(PaymentQuery(<<"1">>), OtherPassword),
          [data |-> Undefined, ss1 |-> Undefined]}

\* data and ss1 come only with a server callback that names its transaction
\* and its Saleor API URL.
Requests ==
    {[action |-> a, transactionId |-> t, saleorApiUrl |-> u,
      data |-> cb.data, ss1 |-> cb.ss1] :
        a \in Actions, t \in TransactionIds, u \in SaleorApiUrls,
        cb \in CallbackParams}
    \ {r \in [action : Actions, transactionId : TransactionIds,
              saleorApiUrl : SaleorApiUrls,
              data : {cb.data : cb \in CallbackParams},
              ss1 : {cb.ss1 : cb \in CallbackParams}] :
          /\ r.data # Undefined
          /\ ~(r.action = Some("callback") /\ r.transactionId # Undefined
               /\ r.saleorApiUrl = Some(<<"s">>))}

OtherItem == [key |-> "other_key", value |-> NotJson]

\* What FetchAppDetails may answer: an error, no app, or an app with its
\* private metadata.
AppResults ==
    {[error |-> TRUE, app |-> Undefined], [error |-> FALSE, app |-> Undefined]}
    \cup {[error |-> FALSE, app |-> Some([privateMetadata |-> md])] :
            md \in {Undefined,
                    Some(<<>>),
                    Some(<<OtherItem>>),
                    Some(<<[key |-> PAYSERA_CONFIG_KEY, value |-> NotJson]>>),
                    Some(<<serializePayseraConfig(
                              [StoredConfig EXCEPT !.password = <<>>])>>),
                    Some(<<OtherItem, serializePayseraConfig(StoredConfig)>>)}}

ReportResults == {"error", "errors", "alreadyProcessed", "ok"}

Init ==
    /\ call = NotCalling
    /\ outcome = Undefined
    /\ EndpointIdle

\* uuidv7(): a value no earlier call returned.
uuidv7 == uuidClock + 1

Finish(response) ==
    /\ res' = response
    /\ pc' = "done"

\* handler, up to its first await or its response.
Receive ==
    /\ pc \in {"idle", "done"}
    /\ deliveries < MaxDeliveries
    /\ \E r \in Requests :
        /\ req' = r
        /\ env' = NoEnv
        /\ deliveries' = deliveries + 1
        /\ IF r.saleorApiUrl # Undefined
              /\ ~decodeURIComponent(r.saleorApiUrl[1]).ok
           THEN Finish(Unhandled)
           ELSE IF r.transactionId = Undefined
           THEN Finish(Respond(400, "Missing transactionId"))
           ELSE IF r.action = Some("accept")
           THEN Finish(Redirect(getRedirectUrl(TRUE)))
           ELSE IF r.action = Some("cancel")
           THEN Finish(Redirect(getRedirectUrl(FALSE)))
           ELSE IF r.action = Some("callback")
           THEN IF r.saleorApiUrl = Undefined
                THEN Finish(Respond(400, "Missing saleorApiUrl"))
                ELSE res' = Undefined /\ pc' = "apl"
           ELSE Finish(Respond(400, "Unknown action"))
    /\ UNCHANGED <<call, outcome, reports, uuidClock>>

\* handleServerCallback, from the answer of saleorApp.apl.get to the query.
AplResolved ==
    /\ pc = "apl"
    /\ \E authData \in {"authData", "none"} :
        /\ env' = [env EXCEPT !.apl = authData]
        /\ IF authData = "none"
           THEN Finish(Respond(400, "Invalid Saleor API URL"))
           ELSE res' = res /\ pc' = "appDetails"
    /\ UNCHANGED <<call, outcome, req, reports, uuidClock, deliveries>>

\* The event type and message for a decoded callback.
EventFor(payseraClient, callbackData) ==
    IF isPaymentSuccessful(callbackData)
    THEN [type |-> "ChargeSuccess", message |-> "Payment completed successfully"]
    ELSE IF callbackData.status = PayseraStatus.PENDING
    THEN [type |-> "ChargeRequest", message |-> "Payment pending"]
    ELSE IF callbackData.status = PayseraStatus.ACCEPTED_NOT_EXECUTED
    THEN [type |-> "ChargeRequest",
          message |-> "Payment accepted, waiting for execution"]
    ELSE [type |-> "ChargeFailure", message |-> "Payment failed"]

\* The variables of the TransactionEventReport mutation. amount is
\* callbackData.amount / 100, kept as the pair of its numerator and 100.
\* callbackData is not sent: the model keeps it beside the variables to tell
\* which callback a report was made for.
ReportVariables(transactionId, callbackData, event, pspReference) ==
    [id |-> transactionId,
     amount |-> <<callbackData.amount, 100>>,
     type |-> event.type,
     pspReference |-> pspReference,
     message |-> event.message,
     availableActions |-> IF event.type = "ChargeSuccess" THEN <<"Refund">> ELSE <<>>,
     callbackData |-> callbackData]

\* AppDetailsResolved with one catch for every error of processCallback:
\* what the handler would be without the instanceof tests and the rethrow.
AppDetailsResolved_CatchAll ==
    /\ pc = "appDetails"
    /\ \E appResult \in AppResults :
        /\ env' = [env EXCEPT !.app = appResult]
        /\ IF appResult.error \/ appResult.app = Undefined
           THEN /\ Finish(Respond(500, "Failed to fetch app configuration"))
                /\ UNCHANGED <<reports, uuidClock>>
           ELSE
           LET payseraConfig ==
                   getPayseraConfigFromMetadata(appResult.app[1].privateMetadata)
           IN  IF ~payseraConfig.ok
               THEN /\ Finish(Respond(500, "Paysera not configured"))
                    /\ UNCHANGED <<reports, uuidClock>>
               ELSE
               LET payseraClient == PayseraClient(payseraConfig.value)
               IN  IF ~payseraClient.ok
                   THEN /\ Finish(Unhandled)
                        /\ UNCHANGED <<reports, uuidClock>>
                   ELSE IF \/ req.data = Undefined \/ req.data = Some(<<>>)
                           \/ req.ss1 = Undefined \/ req.ss1 = Some(<<>>)
                   THEN /\ Finish(Respond(400, "Missing callback data"))
                        /\ UNCHANGED <<reports, uuidClock>>
                   ELSE
                   LET processed ==
                           processCallback(payseraClient.value,
                                           [data |-> req.data[1],
                                            ss1 |-> req.ss1[1]]).result
                   IN  IF ~processed.ok
                       THEN /\ Finish(Respond(400, "Invalid callback data"))
                            /\ UNCHANGED <<reports, uuidClock>>
                       ELSE /\ reports' = Append(reports,
                                   ReportVariables(req.transactionId[1],
                                       processed.value,
                                       EventFor(payseraClient.value, processed.value),
                                       uuidv7))
                            /\ uuidClock' = uuidClock + 1
                            /\ res' = res
                            /\ pc' = "report"
    /\ UNCHANGED <<call, outcome, req, deliveries>>

\* handleServerCallback, from the answer of FetchAppDetails to the mutation.
AppDetailsResolved ==
    /\ pc = "appDetails"
    /\ \E appResult \in AppResults :
        /\ env' = [env EXCEPT !.app = appResult]
        /\ IF appResult.error \/ appResult.app = Undefined
           THEN /\ Finish(Respond(500, "Failed to fetch app configuration"))
                /\ UNCHANGED <<reports, uuidClock>>
           ELSE
           LET payseraConfig ==
                   getPayseraConfigFromMetadata(appResult.app[1].privateMetadata)
           IN  IF ~payseraConfig.ok
               THEN /\ Finish(Respond(500, "Paysera not configured"))
                    /\ UNCHANGED <<reports, uuidClock>>
               ELSE
               LET payseraClient == PayseraClient(payseraConfig.value)
               IN  IF ~payseraClient.ok
                   THEN /\ Finish(Unhandled)
                        /\ UNCHANGED <<reports, uuidClock>>
                   ELSE IF \/ req.data = Undefined \/ req.data = Some(<<>>)
                           \/ req.ss1 = Undefined \/ req.ss1 = Some(<<>>)
                   THEN /\ Finish(Respond(400, "Missing callback data"))
                        /\ UNCHANGED <<reports, uuidClock>>
                   ELSE
                   LET processed ==
                           processCallback(payseraClient.value,
                                           [data |-> req.data[1],
                                            ss1 |-> req.ss1[1]]).result
                   IN  IF ~processed.ok
                       THEN /\ Finish(
                                 IF processed.error = "PayseraSignatureError"
                                 THEN Respond(400, "Invalid signature")
                                 ELSE IF processed.error = "PayseraCallbackDataError"
                                 THEN Respond(400, "Invalid callback data")
                                 ELSE Unhandled)
                            /\ UNCHANGED <<reports, uuidClock>>
                       ELSE /\ reports' = Append(reports,
                                   ReportVariables(req.transactionId[1],
                                       processed.value,
                                       EventFor(payseraClient.value, processed.value),
                                       uuidv7))
                            /\ uuidClock' = uuidClock + 1
                            /\ res' = res
                            /\ pc' = "report"
    /\ UNCHANGED <<call, outcome, req, deliveries>>

\* ReportResolved with the mutation sent again when it failed.
ReportResolved_Retries ==
    /\ pc = "report"
    /\ \E reportResult \in ReportResults :
        /\ env' = [env EXCEPT !.report = reportResult]
        /\ IF reportResult = "error"
           THEN /\ Finish(Respond(500, "Failed to report event"))
                /\ reports' = Append(reports, reports[Len(reports)])
           ELSE /\ Finish(Respond(200, "OK"))
                /\ reports' = reports
    /\ UNCHANGED <<call, outcome, req, uuidClock, deliveries>>
\* handleServerCallback, from the answer of the mutation to the response.
ReportResolved ==
    /\ pc = "report"
    /\ \E reportResult \in ReportResults :
        /\ env' = [env EXCEPT !.report = reportResult]
        /\ IF reportResult = "error"
           THEN Finish(Respond(500, "Failed to report event"))
           ELSE Finish(Respond(200, "OK"))
    /\ UNCHANGED <<call, outcome, req, reports, uuidClock, deliveries>>

Next == Receive \/ AplResolved \/ AppDetailsResolved \/ ReportResolved

Spec == Init /\ [][Next]_vars


(***************************************************************************)
(* paysera-request-builder.ts: encodeParams, buildRequest, getPaymentUrl   *)
(* and buildPaymentUrl.  The parameters are an object: the model keeps its *)
(* entries in insertion order, which is the order Object.entries gives     *)
(* them in, each value undefined, null, a string or a number.              *)
(***************************************************************************)

JsUndefined == [type |-> "undefined"]

JsNull == [type |-> "null"]

Str(s) == [type |-> "string", s |-> s]

Num(n) == [type |-> "number", n |-> n]

Entry(key, value) == [key |-> key, value |-> value]

\* Number.prototype.toString for an integer: its decimal digits, after a
\* minus sign when it is negative.
RECURSIVE NaturalText(_)
NaturalText(n) ==
    IF n < 10 THEN <<HexDigits[n + 1]>>
    ELSE NaturalText(n \div 10) \o <<HexDigits[(n % 10) + 1]>>

DecimalText(n) == IF n < 0 THEN <<"-">> \o NaturalText(0 - n) ELSE NaturalText(n)

\* String(value) for the values encodeParams lets through.
String(value) ==
    IF value.type = "number" THEN DecimalText(value.n) ELSE value.s

\* encodeURIComponent leaves letters, digits and - _ . ! ~ * ' ( ) alone and
\* writes every other character as %XX for each byte of its UTF-8 form, in
\* uppercase hexadecimal.  (It throws for an unpaired surrogate; no
\* parameter of the model holds one.)
Unreserved ==
    {"-", "_", ".", "!", "~", "*", "'", "(", ")"}

IsAlphanumeric(c) ==
    /\ IsAscii(c)
    /\ LET n == Code(c)
       IN  \/ n >= 48 /\ n <= 57
           \/ n >= 65 /\ n <= 90
           \/ n >= 97 /\ n <= 122

PercentByte(byte) ==
    <<"%", UpperChar(HexDigits[(byte \div 16) + 1]),
           UpperChar(HexDigits[(byte % 16) + 1])>>

EncodeChar(c) ==
    IF IsAlphanumeric(c) \/ c \in Unreserved THEN <<c>>
    ELSE LET bytes == Utf8Bytes(<<c>>)
         IN  Flatten([i \in 1..Len(bytes) |-> PercentByte(bytes[i])])

\* A string put into the query as it is.
encodeURIComponent_Raw(s) == s

encodeURIComponent(s) == Flatten([i \in 1..Len(s) |-> EncodeChar(s[i])])

\* The filter of encodeParams without its test for the empty string, and
\* with a test for truthiness in the place of its three comparisons.
IsEmitted_EmptyStringKept(value) ==
    /\ value # JsUndefined
    /\ value # JsNull

IsEmitted_Truthy(value) ==
    /\ value # JsUndefined
    /\ value # JsNull
    /\ value # Str(<<>>)
    /\ value # Num(0)
IsEmitted(value) ==
    /\ value # JsUndefined
    /\ value # JsNull
    /\ value # Str(<<>>)

encodeParams(params) ==
    LET kept    == SelectSeq(params, LAMBDA entry : IsEmitted(entry.value))
        entries == [i \in 1..Len(kept) |->
                       encodeURIComponent(kept[i].key) \o <<"=">>
                       \o encodeURIComponent(String(kept[i].value))]
    IN  Join(entries)

buildRequest(params, password) ==
    LET encodedParams == encodeParams(params)
        data == toUrlSafeBase64(encodedParams)
        sign == generateSignature(data, password)
    IN  [data |-> data, sign |-> sign]

PAYSERA_PAYMENT_URL ==
    <<"h", "t", "t", "p", "s", ":", "/", "/", "w", "w", "w", ".",
      "p", "a", "y", "s", "e", "r", "a", ".", "c", "o", "m", "/",
      "p", "a", "y", "/">>

\* The two query parameters in the other order.
getPaymentUrl_SignFirst(data, sign) ==
    PAYSERA_PAYMENT_URL \o <<"?", "s", "i", "g", "n", "=">> \o sign
        \o <<"&", "d", "a", "t", "a", "=">> \o data
getPaymentUrl(data, sign) ==
    PAYSERA_PAYMENT_URL \o <<"?", "d", "a", "t", "a", "=">> \o data
        \o <<"&", "s", "i", "g", "n", "=">> \o sign

buildPaymentUrl(params, password) ==
    LET request == buildRequest(params, password)
    IN  getPaymentUrl(request.data, request.sign)

(***************************************************************************)
(* JavaScript numbers.  An amount is an IEEE 754 double: a significand of  *)
(* 53 bits (most significant first, the first one set) and the power of    *)
(* two its last bit stands for.  Products and quotients are computed       *)
(* exactly on numbers of any length, held as limbs of LimbBits bits, and   *)
(* then rounded to the nearest double, ties to even.                       *)
(***************************************************************************)

SignificandBits == 53

LimbBits == 10

LimbBase == 2^LimbBits

Zeros(n) == [i \in 1..n |-> 0]

\* The bits of n in the given width, most significant first.
Bits(n, width) == [i \in 1..width |-> (n \div 2^(width - i)) % 2]

BitLength(n) == CHOOSE k \in 1..30 : 2^(k - 1) <= n /\ n < 2^k

RECURSIVE BitsValue(_, _)
BitsValue(bits, n) ==
    IF n = 0 THEN 0 ELSE 2 * BitsValue(bits, n - 1) + bits[n]

StripZeros(bits) ==
    LET ones == {i \in 1..Len(bits) : bits[i] = 1}
    IN  IF ones = {} THEN <<>>
        ELSE SubSeq(bits, CHOOSE i \in ones : \A j \in ones : i <= j, Len(bits))

LimbsOf(bits) ==
    LET count  == (Len(bits) + LimbBits - 1) \div LimbBits
        padded == Zeros(count * LimbBits - Len(bits)) \o bits
    IN  [j \in 1..count |->
            BitsValue(SubSeq(padded, (j - 1) * LimbBits + 1, j * LimbBits), LimbBits)]

BitsOfLimbs(limbs) ==
    StripZeros([i \in 1..(LimbBits * Len(limbs)) |->
                   (limbs[((i - 1) \div LimbBits) + 1]
                       \div 2^(LimbBits - 1 - ((i - 1) % LimbBits))) % 2])

\* Long division of limbs[i..] by a small divisor, rem carried in.
RECURSIVE DivideFrom(_, _, _, _)
DivideFrom(limbs, i, rem, divisor) ==
    IF i > Len(limbs) THEN [quotient |-> <<>>, remainder |-> rem]
    ELSE LET current == rem * LimbBase + limbs[i]
             rest    == DivideFrom(limbs, i + 1, current % divisor, divisor)
         IN  [quotient |-> <<current \div divisor>> \o rest.quotient,
              remainder |-> rest.remainder]

\* limbs[1..i] times a small factor plus carry.
RECURSIVE MultiplyUpTo(_, _, _, _)
MultiplyUpTo(limbs, i, carry, factor) ==
    IF i = 0 THEN <<carry>>
    ELSE LET current == limbs[i] * factor + carry
         IN  MultiplyUpTo(limbs, i - 1, current \div LimbBase, factor)
             \o <<current % LimbBase>>

\* bits + 1, of the same length, or <<>> when every bit is set.
Increment(bits) ==
    LET zeros == {i \in 1..Len(bits) : bits[i] = 0}
    IN  IF zeros = {} THEN <<>>
        ELSE LET last == CHOOSE i \in zeros : \A j \in zeros : j <= i
             IN  [i \in 1..Len(bits) |->
                     IF i < last THEN bits[i] ELSE IF i = last THEN 1 ELSE 0]

\* The double nearest to bits * 2^exp plus, when sticky, a positive amount
\* below 2^exp: ties go to the even significand.
RoundToDouble(bits, exp, sticky) ==
    LET n == Len(bits)
    IN  IF n <= SignificandBits
        THEN [bits |-> bits \o Zeros(SignificandBits - n),
              exp |-> exp - (SignificandBits - n)]
        ELSE
        LET kept  == SubSeq(bits, 1, SignificandBits)
            guard == bits[SignificandBits + 1] = 1
            rest  == sticky \/ \E i \in (SignificandBits + 2)..n : bits[i] = 1
            up    == guard /\ (rest \/ kept[SignificandBits] = 1)
            next  == Increment(kept)
            shift == n - SignificandBits
        IN  IF ~up THEN [bits |-> kept, exp |-> exp + shift]
            ELSE IF next = <<>>
            THEN [bits |-> <<1>> \o Zeros(SignificandBits - 1), exp |-> exp + shift + 1]
            ELSE [bits |-> next, exp |-> exp + shift]

Zero == [bits |-> <<>>, exp |-> 0]

\* The number a decimal literal with two decimals denotes, such as 10.50:
\* the double nearest to cents / 100.
Double(cents) ==
    IF cents = 0 THEN Zero
    ELSE
    LET length    == BitLength(cents)
        scale     == SignificandBits + 9 - length
        numerator == LimbsOf(Bits(cents, length) \o Zeros(scale))
        divided   == DivideFrom(numerator, 1, 0, 100)
    IN  RoundToDouble(BitsOfLimbs(divided.quotient), 0 - scale,
                      divided.remainder # 0)

\* x * factor for a small whole factor.
Multiply(x, factor) ==
    IF x = Zero THEN Zero
    ELSE RoundToDouble(
            BitsOfLimbs(MultiplyUpTo(LimbsOf(x.bits), Len(LimbsOf(x.bits)), 0, factor)),
            x.exp, FALSE)

\* The whole part of x and whether the fraction is a half or more; x is
\* below 2^30.
WholePart(x) ==
    IF x = Zero \/ 0 - x.exp > SignificandBits THEN 0
    ELSE IF x.exp >= 0 THEN BitsValue(x.bits, SignificandBits) * 2^x.exp
    ELSE BitsValue(x.bits, SignificandBits + x.exp)

HalfOrMore(x) ==
    /\ x # Zero
    /\ x.exp < 0
    /\ 0 - x.exp <= SignificandBits
    /\ x.bits[SignificandBits + x.exp + 1] = 1

\* Math.round: the nearest integer, a half going up.
MathRound(x) == WholePart(x) + (IF HalfOrMore(x) THEN 1 ELSE 0)

(***************************************************************************)
(* paysera-client.ts: createPaymentRequest and what it calls.  uuidv7()    *)
(* comes from a library: the operations take the identifier it returned as *)
(* an argument, and the action that calls them draws it.                   *)
(***************************************************************************)

PAYSERA_API_VERSION == <<"1", ".", "6">>

K_accepturl   == <<"a", "c", "c", "e", "p", "t", "u", "r", "l">>
K_cancelurl   == <<"c", "a", "n", "c", "e", "l", "u", "r", "l">>
K_callbackurl == <<"c", "a", "l", "l", "b", "a", "c", "k", "u", "r", "l">>
K_version     == <<"v", "e", "r", "s", "i", "o", "n">>
K_p_email     == <<"p", "_", "e", "m", "a", "i", "l">>
K_p_firstname == <<"p", "_", "f", "i", "r", "s", "t", "n", "a", "m", "e">>
K_p_lastname  == <<"p", "_", "l", "a", "s", "t", "n", "a", "m", "e">>
K_lang        == <<"l", "a", "n", "g">>

\* Math.floor in the place of Math.round.
toMinorUnits_Floor(amount) == WholePart(Multiply(amount, 100))

toMinorUnits(amount) == MathRound(Multiply(amount, 100))

\* str.slice(0, n)
Slice(str, n) == SubSeq(str, 1, IF Len(str) < n THEN Len(str) ELSE n)

generateOrderId(transactionId, uuid) ==
    LET shortTxId == Slice(SelectSeq(transactionId, IsAlphanumeric), 8)
        shortUuid == Slice(SelectSeq(uuid, LAMBDA c : c # "-"), 24)
    IN  Slice(shortTxId \o shortUuid, 40)

\* if (options.field): the field is set and not the empty string.
Truthy(field) == field # Undefined /\ field # Some(<<>>)

OptionalEntry(key, field) ==
    IF Truthy(field) THEN <<Entry(key, Str(field[1]))>> ELSE <<>>

RequestParams(client, options, orderId) ==
    <<Entry(K_projectid, Str(client.config.projectId)),
      Entry(K_orderid, Str(orderId)),
      Entry(K_accepturl, Str(options.urls.acceptUrl)),
      Entry(K_cancelurl, Str(options.urls.cancelUrl)),
      Entry(K_callbackurl, Str(options.urls.callbackUrl)),
      Entry(K_version, Str(PAYSERA_API_VERSION)),
      Entry(K_amount, Num(toMinorUnits(options.amount))),
      Entry(K_currency, Str(options.currency)),
      Entry(K_test, Num(IF client.config.testMode THEN 1 ELSE 0))>>
    \o OptionalEntry(K_p_email, options.customerEmail)
    \o OptionalEntry(K_p_firstname, options.customerFirstName)
    \o OptionalEntry(K_p_lastname, options.customerLastName)
    \o OptionalEntry(K_paytext, options.paymentDescription)
    \o OptionalEntry(K_lang, options.language)

createPaymentRequest(client, options, uuid) ==
    LET orderId == generateOrderId(options.transactionId, uuid)
    IN  Ok([redirectUrl |->
                buildPaymentUrl(RequestParams(client, options, orderId),
                                client.config.password),
            orderId |-> orderId])

(***************************************************************************)
(* Specifications of the client's operations.                              *)
(***************************************************************************)

\* ---- PayseraClient.processCallback over status codes ----

MaxStatusDigits == 2

StatusDigits == {"0", "1", "3", "7"}

StatusSigns == {<<>>, <<"-">>, <<"+">>}

\* Every way the gateway may write an integer status: an optional sign and
\* decimal digits, leading zeros included.
IntegerTexts ==
    {sign \o digits : sign \in StatusSigns,
                      digits \in Strings(StatusDigits, MaxStatusDigits) \ {<<>>}}

\* The payload of a payment's callback for each way of writing its status.
StatusPayloads ==
    {[statusText |-> c.statusText, data |-> toUrlSafeBase64(c.query)] :
        c \in {[statusText |-> st, query |-> PaymentQuery(st)] : st \in IntegerTexts}}

\* Each of them signed with the stored password.
InitStatus ==
    /\ call \in {[op |-> "processCallback",
                  client |-> PayseraClient(StoredConfig).value,
                  statusText |-> c.statusText,
                  rawCallback |->
                      [data |-> c.data,
                       ss1 |-> generateSignature(c.data, StoredConfig.password)]] :
                    c \in StatusPayloads}
    /\ outcome = Undefined
    /\ EndpointIdle

SpecStatus == InitStatus /\ [][CallProcessCallback]_vars

\* ---- PayseraClient: constructor, createPaymentRequest, processCallback ----

MaxOperations == 2

ClientConfigs ==
    [projectId : {<<>>, <<"1">>}, password : {<<>>, <<"p", "w">>},
     testMode : BOOLEAN]

\* A UUID of version 7 as text: 48 bits of time, the version, 12 random
\* bits, the variant and 62 random bits, as 32 hexadecimal digits in groups
\* of 8, 4, 4, 4 and 12.  Those of the model differ in the last digit of the
\* time and in the last random digit.
UuidTimes == {"1", "2"}

UuidTails == {"a", "b"}

UuidText(time, tail) ==
    <<"0", "0", "0", "0", "0", "0", "0", "0", "-", "0", "0", "0", time, "-",
      "7", "0", "0", "0", "-", "8", "0", "0", "0", "-",
      "0", "0", "0", "0", "0", "0", "0", "0", "0", "0", "0", tail>>

Uuids == {UuidText(time, tail) : time \in UuidTimes, tail \in UuidTails}

Url(path) == <<"h", "t", "t", "p", "s", ":", "/", "/", "s", "/", path>>

TestUrls == [acceptUrl |-> Url("a"), cancelUrl |-> Url("c"), callbackUrl |-> Url("b")]

EUR == <<"E", "U", "R">>

\* A request description with no optional field set.
BasicOptions(transactionId, amount) ==
    [transactionId |-> transactionId, amount |-> amount, currency |-> EUR,
     urls |-> TestUrls, customerEmail |-> Undefined,
     customerFirstName |-> Undefined, customerLastName |-> Undefined,
     paymentDescription |-> Undefined, language |-> Undefined]

TX001 == <<"T", "X", "-", "0", "0", "1">>

LongTransactionId ==
    <<"v", "e", "r", "y", "-", "l", "o", "n", "g", "-", "i", "d">>

ClientOptions ==
    {BasicOptions(t, Double(1050)) : t \in {TX001, LongTransactionId}}

\* Callbacks handed to a client: a payment signed with its password, the
\* same with a wrong signature, and an empty one.
ClientCallbacks(client) ==
    {[data |-> d, ss1 |-> sig] :
        d \in {toUrlSafeBase64(q) : q \in {PaymentQuery(<<"1">>)}},
        sig \in {<<"z", "z">>}}
    \cup {[data |-> d, ss1 |-> generateSignature(d, client.config.password)] :
            d \in {toUrlSafeBase64(q) : q \in {PaymentQuery(<<"1">>)}}}
    \cup {[data |-> <<>>, ss1 |-> <<>>]}

InitClient ==
    /\ call \in {[op |-> "client", config |-> c] : c \in ClientConfigs}
    /\ outcome = [client |-> Undefined, requests |-> <<>>, callbacks |-> <<>>]
    /\ EndpointIdle

Construct ==
    /\ call.op = "client"
    /\ outcome.client = Undefined
    /\ outcome' = [outcome EXCEPT !.client = Some(PayseraClient(call.config))]
    /\ UNCHANGED <<call, endpointVars>>

Constructed ==
    /\ call.op = "client"
    /\ outcome.client # Undefined
    /\ outcome.client[1].ok
    /\ Len(outcome.requests) + Len(outcome.callbacks) < MaxOperations

\* The identifiers uuidv7() has returned so far: it never returns one twice.
Issued == {outcome.requests[i].uuid : i \in 1..Len(outcome.requests)}

CreatePaymentRequest ==
    /\ Constructed
    /\ \E options \in ClientOptions, uuid \in Uuids \ Issued :
          outcome' = [outcome EXCEPT !.requests =
              Append(@, [options |-> options, uuid |-> uuid,
                         result |-> createPaymentRequest(
                                        outcome.client[1].value, options, uuid)])]
    /\ UNCHANGED <<call, endpointVars>>

\* processCallback on a client that remembers the last callback it was
\* given.
ProcessCallback_RemembersLast ==
    /\ Constructed
    /\ \E rawCallback \in ClientCallbacks(outcome.client[1].value) :
          outcome' = [outcome EXCEPT
              !.client = Some(Ok([config |-> outcome.client[1].value.config,
                                  lastCallback |-> rawCallback])),
              !.callbacks =
                  Append(@, [rawCallback |-> rawCallback,
                             result |-> processCallback(outcome.client[1].value,
                                                        rawCallback).result])]
    /\ UNCHANGED <<call, endpointVars>>

ProcessCallback ==
    /\ Constructed
    /\ \E rawCallback \in ClientCallbacks(outcome.client[1].value) :
          outcome' = [outcome EXCEPT !.callbacks =
              Append(@, [rawCallback |-> rawCallback,
                         result |-> processCallback(outcome.client[1].value,
                                                    rawCallback).result])]
    /\ UNCHANGED <<call, endpointVars>>

NextClient == Construct \/ CreatePaymentRequest \/ ProcessCallback

SpecClient == InitClient /\ [][NextClient]_vars

(***************************************************************************)
(* pages/app/index.tsx and configuration.router.ts: the configuration page *)
(* and the two procedures it calls.  The app's private metadata is kept by *)
(* the platform: a list of items, where updatePrivateMetadata replaces the *)
(* item of the same key or adds one.                                       *)
(***************************************************************************)

UNCHANGED_PASSWORD == <<"u", "n", "c", "h", "a", "n", "g", "e", "d">>

\* String.prototype.trim
trim(str) ==
    LET inked == {i \in 1..Len(str) : str[i] # " "}
    IN  IF inked = {} THEN <<>>
        ELSE SubSeq(str, CHOOSE i \in inked : \A j \in inked : i <= j,
                         CHOOSE i \in inked : \A j \in inked : j <= i)

updatePrivateMetadata(privateMetadata, item) ==
    IF \E i \in 1..Len(privateMetadata) : privateMetadata[i].key = item.key
    THEN [i \in 1..Len(privateMetadata) |->
             IF privateMetadata[i].key = item.key THEN item ELSE privateMetadata[i]]
    ELSE Append(privateMetadata, item)

\* configurationRouter.getConfig, the query for the app's details answered.
getConfig(privateMetadata) ==
    LET config == getPayseraConfigFromMetadata(Some(privateMetadata))
    IN  IF config.ok
        THEN [projectId |-> config.value.projectId,
              testMode |-> config.value.testMode, isConfigured |-> TRUE]
        ELSE [projectId |-> <<>>, testMode |-> TRUE, isConfigured |-> FALSE]

SaveTransports == {"fetchError", "noAppId", "updateError", "updateErrors", "ok"}

\* configurationRouter.saveConfig: the result and the metadata it leaves.
saveConfig(privateMetadata, input, transport) ==
    LET Failed(message) ==
            [success |-> FALSE, message |-> message,
             privateMetadata |-> privateMetadata]
    IN  IF input.projectId = <<>> THEN Failed("Project ID is required")
        ELSE IF input.password = <<>> THEN Failed("Password is required")
        ELSE IF transport = "fetchError" THEN Failed("Failed to fetch app details")
        ELSE IF transport = "noAppId" THEN Failed("App ID not found")
        ELSE IF transport = "updateError" THEN Failed("Failed to save configuration")
        ELSE IF transport = "updateErrors" THEN Failed("errors")
        ELSE [success |-> TRUE, message |-> "",
              privateMetadata |->
                  updatePrivateMetadata(privateMetadata,
                      serializePayseraConfig(
                          [projectId |-> input.projectId,
                           password |-> input.password,
                           testMode |-> input.testMode]))]

\* ---- ConfigurationPage ----

\* What may be typed into the two fields.
ProjectIdInputs == {<<>>, <<" ", "2">>}

PasswordInputs == {<<>>, <<" ">>, <<"q">>}

\* The page before its query is answered, over the metadata of an app that
\* is not configured or is configured with StoredConfig.
InitConfig ==
    /\ call \in {[op |-> "configure"]}
    /\ outcome \in
          {[privateMetadata |-> md,
            projectId |-> <<>>, password |-> <<>>, testMode |-> TRUE,
            data |-> Undefined, fetching |-> TRUE,
            saveStatus |-> "idle", errorMessage |-> "",
            saved |-> Undefined] :
              md \in {<<OtherItem>>,
                      <<OtherItem, serializePayseraConfig(StoredConfig)>>}}
    /\ EndpointIdle

\* configQuery is answered; the effect copies project id and test mode into
\* the form when the data is new.
QueryAnswered ==
    /\ call.op = "configure"
    /\ outcome.fetching
    /\ LET data == getConfig(outcome.privateMetadata)
       IN  outcome' =
              IF outcome.data = Some(data)
              THEN [outcome EXCEPT !.fetching = FALSE]
              ELSE [outcome EXCEPT !.fetching = FALSE, !.data = Some(data),
                                   !.projectId = data.projectId,
                                   !.testMode = data.testMode]
    /\ UNCHANGED <<call, endpointVars>>

FormShown == call.op = "configure" /\ outcome.data # Undefined

SetProjectId ==
    /\ FormShown
    /\ \E value \in ProjectIdInputs : outcome' = [outcome EXCEPT !.projectId = value]
    /\ UNCHANGED <<call, endpointVars>>

SetPassword ==
    /\ FormShown
    /\ \E value \in PasswordInputs : outcome' = [outcome EXCEPT !.password = value]
    /\ UNCHANGED <<call, endpointVars>>

SetTestMode ==
    /\ FormShown
    /\ \E pressed \in BOOLEAN : outcome' = [outcome EXCEPT !.testMode = pressed]
    /\ UNCHANGED <<call, endpointVars>>

\* handleSave, the mutation it awaits included.  saved keeps, for the
\* properties, what the last successful save was given and found stored.
handleSave ==
    /\ FormShown
    /\ \E transport \in SaveTransports :
          LET input  == [projectId |-> trim(outcome.projectId),
                         password |-> IF trim(outcome.password) # <<>>
                                      THEN trim(outcome.password)
                                      ELSE UNCHANGED_PASSWORD,
                         testMode |-> outcome.testMode]
              result == saveConfig(outcome.privateMetadata, input, transport)
          IN  outcome' =
                 IF trim(outcome.projectId) = <<>>
                 THEN [outcome EXCEPT !.errorMessage = "Project ID is required",
                                      !.saveStatus = "error"]
                 ELSE IF trim(outcome.password) = <<>> /\ ~outcome.data[1].isConfigured
                 THEN [outcome EXCEPT !.errorMessage = "Password is required",
                                      !.saveStatus = "error"]
                 ELSE IF ~result.success
                 THEN [outcome EXCEPT !.errorMessage = result.message,
                                      !.saveStatus = "error"]
                 ELSE [outcome EXCEPT
                          !.privateMetadata = result.privateMetadata,
                          !.errorMessage = "", !.saveStatus = "success",
                          !.password = <<>>, !.fetching = TRUE,
                          !.saved = Some([passwordField |-> outcome.password,
                                          before |-> outcome.privateMetadata])]
    /\ UNCHANGED <<call, endpointVars>>

NextConfig ==
    QueryAnswered \/ SetProjectId \/ SetPassword \/ SetTestMode \/ handleSave

SpecConfig == InitConfig /\ [][NextConfig]_vars

\* ---- encodeParams, buildPaymentUrl and createPaymentRequest ----

MaxParams == 3

\* Values a parameter may hold: the three that are left out, zero, a number
\* and a string with characters that are percent-encoded and one ("~") that
\* is not.
ParamValues ==
    {JsUndefined, JsNull, Str(<<>>), Num(0), Num(1050), Str(<<"&", " ", "~">>)}

ParamKeys == <<K_test, <<"a", "=">>, K_lang, K_amount, K_paytext>>

ParamLists ==
    UNION {{[i \in 1..n |-> Entry(ParamKeys[i], values[i])] :
                values \in [1..n -> ParamValues]} : n \in 0..MaxParams}

\* What an optional field of a request description may hold.
OptionalTexts == {Undefined, Some(<<>>), Some(<<"x", "@", "~">>)}

OptionalNames == {Undefined, Some(<<"J">>)}

RequestOptions ==
    {[BasicOptions(TX001, Double(1000)) EXCEPT
         !.customerEmail = email, !.customerFirstName = first,
         !.customerLastName = last, !.paymentDescription = text,
         !.language = lang] :
        email \in OptionalTexts, first \in OptionalNames,
        last \in OptionalNames, text \in OptionalNames, lang \in OptionalTexts}

InitRequest ==
    /\ call \in
          {[op |-> "encodeParams", params |-> params] : params \in ParamLists}
          \cup {[op |-> "buildPaymentUrl", params |-> params,
                 password |-> StoredConfig.password] : params \in ParamLists}
          \cup {[op |-> "createPaymentRequest",
                 client |-> PayseraClient([StoredConfig EXCEPT !.testMode = t]).value,
                 options |-> options,
                 uuid |-> UuidText("1", "a")] :
                    t \in BOOLEAN, options \in RequestOptions}
    /\ outcome = Undefined
    /\ EndpointIdle

CallEncodeParams == Apply("encodeParams", encodeParams(call.params))

CallBuildPaymentUrl ==
    Apply("buildPaymentUrl", buildPaymentUrl(call.params, call.password))

CallCreatePaymentRequest ==
    Apply("createPaymentRequest",
          createPaymentRequest(call.client, call.options, call.uuid))

NextRequest == CallEncodeParams \/ CallBuildPaymentUrl \/ CallCreatePaymentRequest

SpecRequest == InitRequest /\ [][NextRequest]_vars

\* ---- createPaymentRequest over amounts ----

MaxCents == 1200

\* A request for every amount of whole cents up to MaxCents, given in major
\* units as the decimal literal denotes it: cents / 100 as a double.
InitAmount ==
    /\ call \in {[op |-> "createPaymentRequest",
                  client |-> PayseraClient(StoredConfig).value,
                  cents |-> cents,
                  options |-> BasicOptions(TX001, Double(cents)),
                  uuid |-> UuidText("1", "a")] : cents \in 1..MaxCents}
    /\ outcome = Undefined
    /\ EndpointIdle

SpecAmount == InitAmount /\ [][CallCreatePaymentRequest]_vars

\* ---- toUrlSafeBase64 and fromUrlSafeBase64 ----

MaxTextLen == 3

\* "?" and ">" are the characters whose repetition gives "/" and "+" in
\* standard base64.
TextAlphabet == {"?", ">", "a", E_ACUTE, REPLACEMENT, UNPAIRED_SURROGATE}

\* A string is encoded, or the encoding of a string is decoded, as the tests
\* do: encoded = toUrlSafeBase64(original); fromUrlSafeBase64(encoded).
InitBase64 ==
    /\ call \in
          {[op |-> "toUrlSafeBase64", str |-> s] :
              s \in Strings(TextAlphabet, MaxTextLen)}
          \cup {[op |-> "fromUrlSafeBase64", original |-> s,
                 str |-> toUrlSafeBase64(s)] :
                    s \in Strings(TextAlphabet, MaxTextLen)}
    /\ outcome = Undefined
    /\ EndpointIdle

CallToUrlSafeBase64 == Apply("toUrlSafeBase64", toUrlSafeBase64(call.str))

CallFromUrlSafeBase64 == Apply("fromUrlSafeBase64", fromUrlSafeBase64(call.str))

NextBase64 == CallToUrlSafeBase64 \/ CallFromUrlSafeBase64

SpecBase64 == InitBase64 /\ [][NextBase64]_vars

\* ---- generateSignature and buildRequest, each called twice ----

\* generateSignature is called for (data, password) and for (otherData,
\* otherPassword), as the tests compare result1 and result2; buildRequest is
\* called twice with the same parameters and password.
InitSign ==
    /\ call \in
          {[op |-> "generateSignature", data |-> d, password |-> p,
            otherData |-> od, otherPassword |-> op] :
                d \in Strings(SignedAlphabet, MaxSignedLen),
                p \in Strings(SignedAlphabet, MaxSignedLen),
                od \in Strings(SignedAlphabet, MaxSignedLen),
                op \in Strings(SignedAlphabet, MaxSignedLen)}
          \cup {[op |-> "buildRequest", params |-> params,
                 password |-> StoredConfig.password] : params \in ParamLists}
    /\ outcome = Undefined
    /\ EndpointIdle

CallGenerateSignatureTwice ==
    Apply("generateSignature",
          [result1 |-> generateSignature(call.data, call.password),
           result2 |-> generateSignature(call.otherData, call.otherPassword)])

CallBuildRequestTwice ==
    Apply("buildRequest",
          [result1 |-> buildRequest(call.params, call.password),
           result2 |-> buildRequest(call.params, call.password)])

NextSign == CallGenerateSignatureTwice \/ CallBuildRequestTwice

SpecSign == InitSign /\ [][NextSign]_vars

\* ---- parseCallbackData over the optional fields ----

OptionalKeys == <<K_paytext, K_name, K_surename, K_payment, K_country>>

\* What an optional text field may hold: nothing (absent), the empty string,
\* or a text.
OptionalFieldValues == {Undefined, Some(<<>>), Some(<<"L", " ", "t">>)}

\* The raw values of test: absent, the two that are recognised, and others
\* that a number parser would read as 0 or 1.
TestValues ==
    {Undefined, Some(<<"1">>), Some(<<"0">>), Some(<<>>), Some(<<"2">>),
     Some(<<"0", "1">>), Some(<<"1", " ">>), Some(<<"t", "r", "u", "e">>)}

K_unrecognised == <<"p", "_", "e", "m", "a", "i", "l">>

\* A mapping with every required field, the optional fields that are
\* present, and possibly a key the event has no field for.
RawDataWith(optional, test, extra) ==
    [k \in {required[i] : i \in 1..Len(required)}
        \cup {OptionalKeys[i] : i \in {j \in 1..Len(OptionalKeys) :
                                          optional[j] # Undefined}}
        \cup (IF test = Undefined THEN {} ELSE {K_test})
        \cup (IF extra THEN {K_unrecognised} ELSE {}) |->
        IF k \in {K_amount, K_status} THEN <<"1">>
        ELSE IF k = K_test THEN test[1]
        ELSE IF k = K_unrecognised THEN <<"x">>
        ELSE IF \E i \in 1..Len(OptionalKeys) : OptionalKeys[i] = k
        THEN optional[CHOOSE i \in 1..Len(OptionalKeys) : OptionalKeys[i] = k][1]
        ELSE <<"x">>]

InitOptional ==
    /\ call \in {[op |-> "parseCallbackData",
                  rawData |-> RawDataWith(optional, test, extra)] :
                    optional \in [1..Len(OptionalKeys) -> OptionalFieldValues],
                    test \in TestValues, extra \in BOOLEAN}
    /\ outcome = Undefined
    /\ EndpointIdle

SpecOptional == InitOptional /\ [][CallParseCallbackData]_vars

\* ---- one client shared by every operation ----

\* The events handed to the classification methods: a successful payment
\* and a pending one.
SharedEvents ==
    {EventWithStatus(PayseraStatus.SUCCESS),
     EventWithStatus(PayseraStatus.ACCEPTED_NOT_EXECUTED)}

\* The methods are synchronous, so calls made concurrently on one client
\* run one after the other, in any order.
InitShared ==
    /\ call \in {[op |-> "client", config |-> c] :
                    c \in {d \in ClientConfigs : PayseraClient(d).ok}}
    /\ outcome = [client |-> Undefined, requests |-> <<>>, callbacks |-> <<>>,
                  classified |-> <<>>]
    /\ EndpointIdle

Classify ==
    /\ call.op = "client"
    /\ outcome.client # Undefined
    /\ outcome.client[1].ok
    /\ Len(outcome.classified) < MaxOperations
    /\ \E callbackData \in SharedEvents :
          outcome' = [outcome EXCEPT !.classified =
              Append(@, [callbackData |-> callbackData,
                         successful |-> isPaymentSuccessful(callbackData),
                         pending |-> isPaymentPending(callbackData)])]
    /\ UNCHANGED <<call, endpointVars>>

NextShared == Construct \/ CreatePaymentRequest \/ ProcessCallback \/ Classify

SpecShared == InitShared /\ [][NextShared]_vars

\* ---- the configuration stored and loaded ----

MaxConfigLen == 2

\* The characters of a project id or password: a letter, the two that JSON
\* escapes, and an unpaired surrogate.
ConfigAlphabet == {"a", "\"", "\\", UNPAIRED_SURROGATE}

ConfigTexts == Strings(ConfigAlphabet, MaxConfigLen) \ {<<>>}

AnotherItem == [key |-> "another_key", value |-> NotJson]

\* Metadata that holds the entry alone, after an entry with another key, and
\* between two.
MetadataWith(entry) ==
    {<<entry>>, <<OtherItem, entry>>, <<OtherItem, entry, AnotherItem>>}

\* The text of an object with the members given.
JsonObjectText(members) ==
    <<"{">>
    \o Flatten([i \in 1..Len(members) |->
                   (IF i = 1 THEN <<>> ELSE <<",">>)
                   \o QuoteJson(members[i].key) \o <<":">>
                   \o (IF members[i].value.type = "string"
                       THEN QuoteJson(members[i].value.s)
                       ELSE IF members[i].value.b THEN <<"t", "r", "u", "e">>
                       ELSE <<"f", "a", "l", "s", "e">>)])
    \o <<"}">>

\* Stored values that are objects but not what serializePayseraConfig
\* writes: members left out, empty, of another type, or added.
OtherObjects ==
    LET id == [key |-> K_projectId, value |-> JsonString(<<"1">>)]
        pw == [key |-> K_password, value |-> JsonString(<<"p", "w">>)]
    IN  {<<>>, <<id>>, <<pw>>, <<id, pw>>,
         <<[id EXCEPT !.value = JsonString(<<>>)], pw>>,
         <<id, [pw EXCEPT !.value = JsonString(<<>>)]>>,
         <<id, [pw EXCEPT !.value = JsonBoolean(TRUE)]>>,
         <<id, pw, [key |-> K_testMode, value |-> JsonBoolean(FALSE)]>>,
         <<id, pw, [key |-> K_testMode, value |-> JsonString(<<"n", "o">>)]>>,
         <<id, pw, [key |-> <<"x">>, value |-> JsonString(<<"y">>)]>>}

\* Metadata from which a configuration is loaded: none, an empty list,
\* entries with other keys only, and an entry with the key whose value is not
\* JSON or is one of the objects above.
LoadedMetadata ==
    {Undefined, Some(<<>>), Some(<<OtherItem>>), Some(<<OtherItem, AnotherItem>>),
     Some(<<[key |-> PAYSERA_CONFIG_KEY, value |-> NotJson]>>),
     Some(<<[key |-> PAYSERA_CONFIG_KEY, value |-> <<>>]>>)}
    \cup {Some(md) : md \in UNION {MetadataWith([key |-> PAYSERA_CONFIG_KEY,
                                                   value |-> JsonObjectText(object)]) :
                                      object \in OtherObjects}}

InitStore ==
    /\ call \in
          {[op |-> "serializePayseraConfig", config |-> c.config] :
              c \in {[config |-> [projectId |-> id, password |-> pw, testMode |-> t]] :
                        id \in ConfigTexts, pw \in ConfigTexts, t \in BOOLEAN}}
          \cup UNION {{[op |-> "getPayseraConfigFromMetadata",
                         config |-> Some(c.config),
                         privateMetadata |-> Some(md)] :
                            md \in MetadataWith(c.entry)} :
                c \in {[config |-> cfg, entry |-> serializePayseraConfig(cfg)] :
                         cfg \in [projectId : ConfigTexts, password : ConfigTexts,
                                  testMode : BOOLEAN]}}
          \cup {[op |-> "getPayseraConfigFromMetadata", config |-> Undefined,
                 privateMetadata |-> md] : md \in LoadedMetadata}
    /\ outcome = Undefined
    /\ EndpointIdle

CallSerializePayseraConfig ==
    Apply("serializePayseraConfig", serializePayseraConfig(call.config))

\* The configuration is loaded and, as both handlers do, a client is
\* constructed from it.
CallGetPayseraConfigFromMetadata ==
    Apply("getPayseraConfigFromMetadata",
          LET loaded == getPayseraConfigFromMetadata(call.privateMetadata)
          IN  [loaded |-> loaded,
               client |-> IF loaded.ok THEN Some(PayseraClient(loaded.value))
                          ELSE Undefined])

NextStore == CallSerializePayseraConfig \/ CallGetPayseraConfigFromMetadata

SpecStore == InitStore /\ [][NextStore]_vars

\* ---- a request built, then verified and decoded ----

\* Values with the characters that separate pairs, keys and escapes, beside
\* the values that are left out and a number.
EnvelopeValues ==
    {JsUndefined, JsNull, Str(<<>>), Num(0), Str(<<"&", "=">>),
     Str(<<"%", "4", "1">>), Str(<<"+", " ">>)}

EnvelopeParams ==
    UNION {{[i \in 1..n |-> Entry(ParamKeys[i], values[i])] :
                values \in [1..n -> EnvelopeValues]} : n \in 0..MaxParams}

InitEnvelope ==
    /\ call \in {[op |-> "buildRequest", params |-> params, password |-> password] :
                    params \in EnvelopeParams,
                    password \in {StoredConfig.password, OtherPassword}}
    /\ outcome = Undefined
    /\ EndpointIdle

\* The envelope is built, and what a receiver with the same password does
\* with it: the signature is verified and the payload decoded.
CallBuildThenDecode ==
    Apply("buildRequest",
          LET envelope == buildRequest(call.params, call.password)
          IN  [envelope |-> envelope,
               verified |-> verifySignature(envelope.data, envelope.sign,
                                            call.password),
               decoded |-> decodeCallbackData(envelope.data)])

SpecEnvelope == InitEnvelope /\ [][CallBuildThenDecode]_vars

(***************************************************************************)
(* The transaction-initialize-session webhook handler.                     *)
(***************************************************************************)

\* TransactionFlowStrategyEnum
TransactionFlowStrategyEnum == [Authorization |-> "AUTHORIZATION", Charge |-> "CHARGE"]

HTTP ==
    <<"h", "t", "t", "p">>

HTTPS ==
    <<"h", "t", "t", "p", "s">>

SchemeSeparator == <<":", "/", "/">>

\* getExternalApiBaseUrl: APP_API_BASE_URL when it is set and not empty,
\* otherwise the protocol of the environment and the host header.
getExternalApiBaseUrl(request, processEnv) ==
    IF Truthy(processEnv.APP_API_BASE_URL) THEN processEnv.APP_API_BASE_URL[1]
    ELSE (IF processEnv.NODE_ENV = "production" THEN HTTPS ELSE HTTP)
         \o SchemeSeparator \o request.headers.host

CallbackPath ==
    <<"/", "a", "p", "i", "/", "p", "a", "y", "s", "e", "r", "a", "/",
      "c", "a", "l", "l", "b", "a", "c", "k", "?", "a", "c", "t", "i",
      "o", "n", "=">>

TransactionIdParameter ==
    <<"&", "t", "r", "a", "n", "s", "a", "c", "t", "i", "o", "n", "I",
      "d", "=">>

SaleorApiUrlParameter ==
    <<"&", "s", "a", "l", "e", "o", "r", "A", "p", "i", "U", "r", "l",
      "=">>

PaymentForOrder ==
    <<"P", "a", "y", "m", "e", "n", "t", " ", "f", "o", "r", " ", "o",
      "r", "d", "e", "r", " ">>

\* `${baseUrl}/api/paysera/callback?action=${action}&transactionId=...`
CallbackUrl(baseUrl, action, transactionId, saleorApiUrl) ==
    baseUrl \o CallbackPath \o action \o TransactionIdParameter
        \o transactionId \o SaleorApiUrlParameter \o saleorApiUrl

\* languageCode.toString().split("_")[0].toLowerCase()
LanguageOf(languageCode) ==
    LET underscores == {i \in 1..Len(languageCode) : languageCode[i] = "_"}
        first == IF underscores = {} THEN Len(languageCode) + 1
                 ELSE CHOOSE i \in underscores : \A j \in underscores : i <= j
    IN  toLowerCase(SubSeq(languageCode, 1, first - 1))

\* The customer information taken from payload.sourceObject: the email of
\* a checkout or else the userEmail of an order, the names of the billing
\* address, and the language.
CustomerOf(sourceObject) ==
    IF sourceObject = Undefined
    THEN [customerEmail |-> Undefined, customerFirstName |-> Undefined,
          customerLastName |-> Undefined, language |-> Undefined]
    ELSE
    LET source == sourceObject[1]
    IN  [customerEmail |->
             IF Truthy(source.email) THEN source.email
             ELSE IF Truthy(source.userEmail) THEN source.userEmail
             ELSE Undefined,
         customerFirstName |->
             IF source.billingAddress = Undefined THEN Undefined
             ELSE Some(source.billingAddress[1].firstName),
         customerLastName |->
             IF source.billingAddress = Undefined THEN Undefined
             ELSE Some(source.billingAddress[1].lastName),
         language |->
             IF Truthy(source.languageCode)
             THEN Some(LanguageOf(source.languageCode[1]))
             ELSE Undefined]

\* encodeURIComponent throws URIError for a string with an unpaired
\* surrogate: createPaymentRequest throws when an optional field it sends
\* holds one.
IsWellFormed(s) == \A i \in 1..Len(s) : s[i] # UNPAIRED_SURROGATE

SentTexts(options) ==
    {field[1] : field \in {f \in {options.customerEmail, options.customerFirstName,
                                  options.customerLastName,
                                  options.paymentDescription, options.language} :
                              Truthy(f)}}

createPaymentRequestOrThrow(client, options, uuid) ==
    IF \E text \in SentTexts(options) : ~IsWellFormed(text)
    THEN Throw("URIError", "URI malformed", <<>>)
    ELSE createPaymentRequest(client, options, uuid)

\* The failure response of both catch blocks, with CHARGE_FAILURE whatever
\* the action type is.
errorResponse_ChargeOnly(pspReference, actionType, message, amount, error) ==
    [pspReference |-> pspReference,
     result |-> "CHARGE_FAILURE",
     message |-> message,
     amount |-> amount,
     actions |-> <<>>,
     externalUrl |-> Undefined,
     data |-> [error |-> Some(error), payseraOrderId |-> Undefined]]

\* The failure response of both catch blocks.
errorResponse(pspReference, actionType, message, amount, error) ==
    [pspReference |-> pspReference,
     result |-> IF actionType = TransactionFlowStrategyEnum.Charge
                THEN "CHARGE_FAILURE" ELSE "AUTHORIZATION_FAILURE",
     message |-> message,
     amount |-> amount,
     actions |-> <<>>,
     externalUrl |-> Undefined,
     data |-> [error |-> Some(error), payseraOrderId |-> Undefined]]

\* res.status(status).json(body)
StatusJson(status, body) == [status |-> status, body |-> Some(body)]

\* An exception that leaves the handler.
HandlerThrew == [status |-> 500, body |-> Undefined]

\* The handler.  uuids are the two values uuidv7() returns, the first to
\* the handler and the second to createPaymentRequest, transactionActions
\* what getTransactionActions returns for CHARGE_ACTION_REQUIRED.
transactionInitializeSession(request, ctx, processEnv, uuids, transactionActions) ==
    LET payload      == ctx.payload
        pspReference == uuids[1]
        orderUuid    == uuids[2]
        actionType   == payload.action.actionType
        amount     == payload.action.amount
        loaded     == getPayseraConfigFromMetadata(payload.recipient.privateMetadata)
    IN  IF ~loaded.ok
        THEN StatusJson(200, errorResponse(pspReference, actionType,
                                           loaded.message, amount,
                                           "CONFIGURATION_ERROR"))
        ELSE
        LET payseraClient == PayseraClient(loaded.value)
        IN  IF ~payseraClient.ok THEN HandlerThrew
            ELSE
            LET baseUrl       == getExternalApiBaseUrl(request, processEnv)
                transactionId == payload.transaction.id
                customer      == CustomerOf(payload.sourceObject)
                saleorApiUrl  == encodeURIComponent(ctx.authData.saleorApiUrl)
                options ==
                    [transactionId |-> transactionId,
                     amount |-> amount,
                     currency |-> payload.action.currency,
                     urls |-> [acceptUrl |-> CallbackUrl(baseUrl, <<"a", "c", "c", "e", "p", "t">>,
                                                         transactionId, saleorApiUrl),
                               cancelUrl |-> CallbackUrl(baseUrl, <<"c", "a", "n", "c", "e", "l">>,
                                                         transactionId, saleorApiUrl),
                               callbackUrl |-> CallbackUrl(baseUrl,
                                                           <<"c", "a", "l", "l", "b", "a", "c", "k">>,
                                                           transactionId, saleorApiUrl)],
                     customerEmail |-> customer.customerEmail,
                     customerFirstName |-> customer.customerFirstName,
                     customerLastName |-> customer.customerLastName,
                     paymentDescription |->
                         Some(PaymentForOrder
                              \o (IF Truthy(payload.merchantReference)
                                  THEN payload.merchantReference[1]
                                  ELSE transactionId)),
                     language |-> customer.language]
                paymentRequest ==
                    createPaymentRequestOrThrow(payseraClient.value, options, orderUuid)
            IN  IF ~paymentRequest.ok
                THEN StatusJson(200, errorResponse(pspReference, actionType,
                                                   paymentRequest.message, amount,
                                                   "PAYMENT_REQUEST_ERROR"))
                ELSE StatusJson(200,
                         [pspReference |-> pspReference,
                          result |-> "CHARGE_ACTION_REQUIRED",
                          message |-> <<"Redirect to Paysera to complete payment", <<>>>>,
                          amount |-> amount,
                          actions |-> transactionActions,
                          externalUrl |-> Some(paymentRequest.value.redirectUrl),
                          data |-> [error |-> Undefined,
                                    payseraOrderId |->
                                        Some(paymentRequest.value.orderId)]])

\* ---- The handler over webhook payloads ----

\* payload.sourceObject: none, a checkout with email, billing address and
\* language, an order with userEmail only, a checkout whose email is empty,
\* and a checkout whose billing first name holds an unpaired surrogate.
SourceObjects ==
    {Undefined,
     Some([email |-> Some(<<"a", "@", "b">>), userEmail |-> Undefined,
           billingAddress |-> Some([firstName |-> <<"J">>, lastName |-> <<"D">>]),
           languageCode |-> Some(<<"E", "N", "_", "U", "S">>)]),
     Some([email |-> Undefined, userEmail |-> Some(<<"c", "@", "d">>),
           billingAddress |-> Undefined, languageCode |-> Some(<<"L", "T">>)]),
     Some([email |-> Some(<<>>), userEmail |-> Undefined,
           billingAddress |-> Some([firstName |-> <<>>, lastName |-> <<>>]),
           languageCode |-> Undefined]),
     Some([email |-> Some(<<"a", "@", "b">>), userEmail |-> Undefined,
           billingAddress |-> Some([firstName |-> <<UNPAIRED_SURROGATE>>,
                                    lastName |-> <<"D">>]),
           languageCode |-> Undefined])}

MerchantReferences == {Undefined, Some(<<"R", "1">>), Some(<<UNPAIRED_SURROGATE>>)}

ProcessEnvs ==
    {[APP_API_BASE_URL |-> Undefined, NODE_ENV |-> "production"],
     [APP_API_BASE_URL |-> Undefined, NODE_ENV |-> "development"],
     [APP_API_BASE_URL |-> Some(Url("p")), NODE_ENV |-> "production"]}

\* payload.recipient.privateMetadata: none, an empty list, a list without
\* the configuration, a configuration that is not JSON or has an empty
\* password, and the stored configuration alone or after another item, in
\* test mode or not.
RecipientMetadata ==
    {Undefined, Some(<<>>), Some(<<OtherItem>>),
     Some(<<[key |-> PAYSERA_CONFIG_KEY, value |-> NotJson]>>),
     Some(<<serializePayseraConfig([StoredConfig EXCEPT !.password = <<>>])>>),
     Some(<<serializePayseraConfig(StoredConfig)>>),
     Some(<<OtherItem,
            serializePayseraConfig([StoredConfig EXCEPT !.testMode = FALSE])>>)}

\* What getTransactionActions may return.
TransactionActions == {<<>>, <<"CANCEL">>}

InitInitialize ==
    /\ call \in
          {[op |-> "transactionInitializeSession",
            request |-> [headers |-> [host |-> <<"a", "p", "p">>]],
            ctx |-> [authData |-> [saleorApiUrl |-> Url("g")],
                     payload |->
                        [action |-> [actionType |-> actionType,
                                     amount |-> Double(1050), currency |-> EUR],
                         recipient |-> [privateMetadata |-> privateMetadata],
                         transaction |-> [id |-> TX001],
                         sourceObject |-> sourceObject,
                         merchantReference |-> merchantReference]],
            processEnv |-> processEnv,
            pspReference |-> UuidText("1", "a"),
            orderUuid |-> UuidText("2", "b"),
            transactionActions |-> transactionActions] :
                actionType \in {TransactionFlowStrategyEnum.Charge,
                                TransactionFlowStrategyEnum.Authorization},
                privateMetadata \in RecipientMetadata,
                sourceObject \in SourceObjects,
                merchantReference \in MerchantReferences,
                processEnv \in ProcessEnvs,
                transactionActions \in TransactionActions}
    /\ outcome = Undefined
    /\ EndpointIdle

CallTransactionInitializeSession ==
    Apply("transactionInitializeSession",
          transactionInitializeSession(call.request, call.ctx, call.processEnv,
                                       <<call.pspReference, call.orderUuid>>,
                                       call.transactionActions))

SpecInitialize == InitInitialize /\ [][CallTransactionInitializeSession]_vars

(***************************************************************************)
(* Properties                                                              *)
(***************************************************************************)

Called == outcome # Undefined

Result == outcome[1]

\* Two strings are equal up to letter case: the same length, and at every
\* position the same letter in either case.
EqualUpToCase(a, b) ==
    /\ Len(a) = Len(b)
    /\ \A i \in 1..Len(a) :
          a[i] = b[i] \/ UpperChar(a[i]) = b[i] \/ a[i] = UpperChar(b[i])

Decoded(calls) ==
    \E i \in 1..Len(calls) : calls[i] \in {"decodeCallbackData", "parseCallbackData"}

SignatureMismatch ==
    ~EqualUpToCase(call.rawCallback.ss1,
                   generateSignature(call.rawCallback.data,
                                     call.client.config.password))

\* C1 as stated: whenever the signature does not match sign(payload, secret),
\* processCallback fails with PayseraSignatureError, neither decodes nor
\* parses, and returns no event.
C1_MismatchAlwaysSignatureError ==
    (Called /\ SignatureMismatch) =>
        /\ ~Result.result.ok
        /\ Result.result.error = "PayseraSignatureError"
        /\ ~Decoded(Result.calls)

\* C1 amended: whenever the signature does not match, processCallback fails
\* without decoding or parsing and returns no event; the failure is
\* PayseraSignatureError when payload and signature are both non-empty and
\* PayseraCallbackDataError when either is empty.
C1_MismatchFailsBeforeDecoding ==
    (Called /\ SignatureMismatch) =>
        /\ ~Result.result.ok
        /\ ~Decoded(Result.calls)
        /\ Result.result.error =
              IF call.rawCallback.data = <<>> \/ call.rawCallback.ss1 = <<>>
              THEN "PayseraCallbackDataError"
              ELSE "PayseraSignatureError"

\* A callback with a wrong signature whose payload is malformed too (it lacks
\* orderid) has been rejected as a signature failure.
C1_Witness ==
    /\ Called
    /\ call.op = "processCallback"
    /\ call.rawCallback.data
          = toUrlSafeBase64(GatewayQuery(FALSE, <<"a", "b", "c">>, <<"1">>))
    /\ call.rawCallback.ss1
          = generateSignature(call.rawCallback.data, OtherPassword)
    /\ Result.result.error = "PayseraSignatureError"

\* C4 as stated: a signature computed with a different password or for a
\* different payload never verifies.
C4_OtherInputsNeverVerify ==
    (Called /\ (call.signedData # call.data
                \/ call.signedPassword # call.password)) =>
        Result = FALSE

\* C4 amended: verifySignature is true exactly when ss1 equals
\* sign(data, password) up to letter case; a signature made over
\* (data', password') verifies in any casing when data' + password' is the
\* same string as data + password, and in no casing when it is another
\* string (the digest taken as collision-free).
C4_VerifiesExactlyUpToCase ==
    Called =>
        /\ Result = EqualUpToCase(call.ss1,
                                  generateSignature(call.data, call.password))
        /\ Result = (call.signedData \o call.signedPassword
                        = call.data \o call.password)

\* A valid signature whose casing was changed has verified.
C4_Witness ==
    /\ Called
    /\ call.op = "verifySignature"
    /\ call.casing = "mixed"
    /\ call.ss1 # generateSignature(call.data, call.password)
    /\ call.signedData = call.data
    /\ call.signedPassword = call.password
    /\ Result = TRUE

\* C5: processCallback fails with PayseraCallbackDataError whenever the
\* payload or the signature is empty, before the signature is checked.
C5_EmptyIsCallbackDataError ==
    (Called /\ (call.rawCallback.data = <<>> \/ call.rawCallback.ss1 = <<>>)) =>
        /\ ~Result.result.ok
        /\ Result.result.error = "PayseraCallbackDataError"
        /\ Result.calls = <<>>

\* A payload that came with an empty signature has been rejected as malformed.
C5_Witness ==
    /\ Called
    /\ call.op = "processCallback"
    /\ call.rawCallback.data # <<>>
    /\ call.rawCallback.ss1 = <<>>
    /\ Result.result.error = "PayseraCallbackDataError"

\* The value of a pair as C6 describes it: everything after the first "=".
C6_ValueAfterFirstEquals(pair) ==
    LET at == {i \in 1..Len(pair) : pair[i] = "="}
    IN  IF at = {} THEN Undefined
        ELSE SubSeq(pair, (CHOOSE i \in at : \A j \in at : i <= j) + 1, Len(pair))

\* The key of a pair as C6 describes it: everything before the first "=".
C6_KeyBeforeFirstEquals(pair) ==
    LET at == {i \in 1..Len(pair) : pair[i] = "="}
    IN  IF at = {} THEN pair
        ELSE SubSeq(pair, 1, (CHOOSE i \in at : \A j \in at : i <= j) - 1)

\* C6: every pair of the query string with a non-empty key is in the mapping
\* under its percent-decoded key, with the percent-decoded text after its
\* first "=" (the empty string when it has no "="), unless a later pair has
\* the same key.
C6_SplitsOnFirstEqualsOnly ==
    (Called /\ Result.ok) =>
        LET pairs == split(call.queryString, "&")
        IN  \A i \in 1..Len(pairs) :
                LET key   == C6_KeyBeforeFirstEquals(pairs[i])
                    value == C6_ValueAfterFirstEquals(pairs[i])
                    later == \E j \in (i + 1)..Len(pairs) :
                                C6_KeyBeforeFirstEquals(pairs[j]) # <<>>
                                /\ decodeURIComponent(C6_KeyBeforeFirstEquals(pairs[j])).value
                                    = decodeURIComponent(key).value
                IN  (key # <<>> /\ ~later) =>
                        /\ decodeURIComponent(key).value \in DOMAIN Result.value
                        /\ Result.value[decodeURIComponent(key).value]
                            = IF value = Undefined THEN <<>>
                              ELSE decodeURIComponent(value).value

\* A base-10 integer: digits, with or without a sign before them.
C7_IsInteger(str) ==
    LET digits == IF Len(str) >= 1 /\ str[1] \in {"+", "-"} THEN Tail(str) ELSE str
    IN  digits # <<>> /\ \A i \in 1..Len(digits) : IsDigit(digits[i])

AllRequiredPresent ==
    {K_projectid, K_orderid, K_amount, K_currency, K_status, K_requestid}
        \subseteq DOMAIN call.rawData

\* C7: with every required key present, parseCallbackData fails with
\* "Invalid amount value" unless the whole amount is a base-10 integer, and
\* otherwise with "Invalid status value" unless the whole status is one.
C7_WholeValueMustBeInteger ==
    (Called /\ AllRequiredPresent) =>
        IF ~C7_IsInteger(call.rawData[K_amount])
        THEN Result = Throw("PayseraCallbackDataError", "Invalid amount value", <<>>)
        ELSE IF ~C7_IsInteger(call.rawData[K_status])
        THEN Result = Throw("PayseraCallbackDataError", "Invalid status value", <<>>)
        ELSE Result.ok

C8_RequiredKeys ==
    <<K_projectid, K_orderid, K_amount, K_currency, K_status, K_requestid>>

\* C8: when a required key is absent, parseCallbackData fails with
\* PayseraCallbackDataError naming the first absent key in the order
\* projectid, orderid, amount, currency, status, requestid, whatever amount
\* and status hold.
C8_NamesFirstMissingKey ==
    Called =>
        \A i \in 1..6 :
            (/\ C8_RequiredKeys[i] \notin DOMAIN call.rawData
             /\ \A j \in 1..(i - 1) : C8_RequiredKeys[j] \in DOMAIN call.rawData) =>
                Result = Throw("PayseraCallbackDataError",
                               "Missing required field: ", C8_RequiredKeys[i])

\* A mapping that lacks requestid and whose amount is not a number has been
\* rejected for the missing key.
C8_Witness ==
    /\ Called
    /\ call.op = "parseCallbackData"
    /\ DOMAIN call.rawData = {K_projectid, K_orderid, K_amount, K_currency, K_status}
    /\ call.rawData[K_amount] = <<"a">>
    /\ Result.message = <<"Missing required field: ", K_requestid>>

\* C9: isPaymentSuccessful is true exactly for status 1, isPaymentPending
\* exactly for status 0 and 2, and they are never both true.
C9_ClassificationByStatus ==
    LET status == call.callbackData.status
    IN  /\ outcome.successful # Undefined =>
              outcome.successful[1] = (status = 1)
        /\ outcome.pending # Undefined =>
              outcome.pending[1] = (status \in {0, 2})
        /\ ~(outcome.successful = Some(TRUE) /\ outcome.pending = Some(TRUE))

\* Status 3 has been classified: neither successful nor pending.
C9_Witness ==
    /\ call.op = "classify"
    /\ call.callbackData.status = 3
    /\ outcome.successful = Some(FALSE)
    /\ outcome.pending = Some(FALSE)

\* C2: a server callback that was verified and decoded is answered with
\* 200 "OK", whatever became of the report to the platform.
C2_DecodedCallbackAnsweredOK ==
    (pc = "done" /\ env.report # "") => res = Respond(200, "OK")

SameCallback(a, b) ==
    /\ a.id = b.id
    /\ a.callbackData.orderid = b.callbackData.orderid
    /\ a.callbackData.requestid = b.callbackData.requestid

\* C3: the reports made for one callback (one transaction, order id and
\* request id) all carry one idempotency key, so that delivering a callback
\* again adds no second event.
C3_OneEventPerCallback ==
    \A i \in 1..Len(reports) : \A j \in 1..Len(reports) :
        SameCallback(reports[i], reports[j]) =>
            reports[i].pspReference = reports[j].pspReference

C10_Outcome(status) ==
    CASE status = 0 -> "Pending"
      [] status = 1 -> "Succeeded"
      [] status = 2 -> "AcceptedAwaitingExecution"
      [] status = 3 -> "AdditionalInfoRequired"
      [] OTHER -> "Failed"

\* C10: the event reported for a callback is a function of the five-way
\* outcome of its status, and different outcomes give different events: two
\* reports have the same type and message exactly when their statuses have
\* the same outcome.
C10_FiveOutcomesFiveEvents ==
    \A i \in 1..Len(reports) : \A j \in 1..Len(reports) :
        (C10_Outcome(reports[i].callbackData.status)
            = C10_Outcome(reports[j].callbackData.status))
        <=> (reports[i].type = reports[j].type
             /\ reports[i].message = reports[j].message)

\* The integer a decimal text denotes: its digits weighted by powers of ten,
\* negated after a minus sign.
C11_IntegerOf(text) ==
    LET signed == text[1] \in {"-", "+"}
        digits == IF signed THEN SubSeq(text, 2, Len(text)) ELSE text
        n      == Len(digits)
        Pow10[k \in 0..n] == IF k = 0 THEN 1 ELSE 10 * Pow10[k - 1]
        Weighted[i \in 0..n] ==
            IF i = 0 THEN 0
            ELSE Weighted[i - 1]
                 + Pow10[n - i] * (CHOOSE d \in 0..9 : HexDigits[d + 1] = digits[i])
    IN  IF text[1] = "-" THEN 0 - Weighted[n] ELSE Weighted[n]

\* C11: for every correctly signed payment callback whose status is a
\* base-10 integer, negative and unknown codes included, processCallback
\* succeeds and the event's status is that integer.
C11_StatusKeptAsReceived ==
    (Called /\ call.op = "processCallback" /\ "statusText" \in DOMAIN call) =>
        /\ Result.result.ok
        /\ Result.result.value.status = C11_IntegerOf(call.statusText)

\* A callback with the negative, unknown status -37 has been decoded.
C11_Witness ==
    /\ Called
    /\ call.op = "processCallback"
    /\ "statusText" \in DOMAIN call
    /\ call.statusText = <<"-", "3", "7">>
    /\ Result.result.ok
    /\ Result.result.value.status = 0 - 37

C12_Invalid(config) == config.projectId = <<>> \/ config.password = <<>>

C12_Results ==
    {outcome.requests[i].result : i \in 1..Len(outcome.requests)}
    \cup {outcome.callbacks[i].result : i \in 1..Len(outcome.callbacks)}

\* The three parts of C12 that hold of a state: construction fails, with
\* PayseraConfigError, exactly when project id or password is empty; a
\* client that exists holds the configuration it was given, both non-empty;
\* no operation of a client has raised PayseraConfigError.
C12_ValidatedAtConstruction ==
    (call.op = "client" /\ outcome.client # Undefined) =>
        LET constructed == outcome.client[1]
        IN  /\ ~constructed.ok <=> C12_Invalid(call.config)
            /\ ~constructed.ok => constructed.error = "PayseraConfigError"
            /\ constructed.ok =>
                  /\ constructed.value.config = call.config
                  /\ constructed.value.config.projectId # <<>>
                  /\ constructed.value.config.password # <<>>
            /\ \A result \in C12_Results : result.error # "PayseraConfigError"

\* C12: constructing a PayseraClient fails with PayseraConfigError exactly
\* when the project id or the password is empty, so a client that exists
\* holds a non-empty project id and password; createPaymentRequest and
\* processCallback never raise a configuration error, and no step changes
\* the configuration a client holds.
C12_ConfigurationCheckedOnce ==
    /\ []C12_ValidatedAtConstruction
    /\ [][outcome.client # Undefined => outcome'.client = outcome.client]_vars

\* A client that was constructed has built a payment request and then
\* rejected a callback for its signature.
C12_Witness ==
    /\ call.op = "client"
    /\ outcome.client # Undefined
    /\ outcome.client[1].ok
    /\ Len(outcome.requests) = 1
    /\ outcome.requests[1].result.ok
    /\ Len(outcome.callbacks) = 1
    /\ outcome.callbacks[1].result.error = "PayseraSignatureError"

\* C13: every order id createPaymentRequest has returned is at most 40
\* characters long, and no two calls have returned the same one.
C13_OrderIdsUnique ==
    call.op = "client" =>
        \A i \in 1..Len(outcome.requests) :
            /\ Len(outcome.requests[i].result.value.orderId) <= 40
            /\ \A j \in 1..Len(outcome.requests) :
                  i # j => outcome.requests[i].result.value.orderId
                              # outcome.requests[j].result.value.orderId

\* C14: when a configuration is stored, a save with the password field left
\* empty keeps the stored password: loading the configuration afterwards
\* gives the password it gave before.
C14_EmptyFieldKeepsPassword ==
    (call.op = "configure" /\ outcome.saved # Undefined) =>
        LET saved  == outcome.saved[1]
            before == getPayseraConfigFromMetadata(Some(saved.before))
            after  == getPayseraConfigFromMetadata(Some(outcome.privateMetadata))
        IN  (before.ok /\ trim(saved.passwordField) = <<>>) =>
                /\ after.ok
                /\ after.value.password = before.value.password

\* The payload of a redirect URL: what stands between "?data=" and "&sign=",
\* the signature being the last 32 characters.
PayloadOf(url) ==
    SubSeq(url, Len(PAYSERA_PAYMENT_URL) + 7, Len(url) - 38)

\* The pairs a query string is made of, each cut at its first "=" and
\* percent-decoded: <<key, value>>, or <<key>> where there is no "=".
PairsOf(queryString) ==
    IF queryString = <<>> THEN <<>>
    ELSE
    LET pairs == split(queryString, "&")
        Cut(pair) ==
            LET equals == {i \in 1..Len(pair) : pair[i] = "="}
                first  == CHOOSE i \in equals : \A j \in equals : i <= j
            IN  IF equals = {} THEN <<decodeURIComponent(pair).value>>
                ELSE <<decodeURIComponent(SubSeq(pair, 1, first - 1)).value,
                       decodeURIComponent(SubSeq(pair, first + 1, Len(pair))).value>>
    IN  [i \in 1..Len(pairs) |-> Cut(pairs[i])]

\* Every character is one that percent-encoding leaves, or "%", or one of
\* the separators.
IsEncodedQuery(queryString) ==
    \A i \in 1..Len(queryString) :
        \/ IsAlphanumeric(queryString[i])
        \/ queryString[i] \in Unreserved \cup {"%", "=", "&"}

C15_Provided(params) ==
    SelectSeq(params, LAMBDA entry :
        entry.value \notin {JsUndefined, JsNull, Str(<<>>)})

C15_IsSet(field) == field # Undefined /\ field # Some(<<>>)

C15_RequiredKeys ==
    <<K_projectid, K_orderid, K_accepturl, K_cancelurl, K_callbackurl,
      K_version, K_amount, K_currency, K_test>>

C15_OptionalFields(options) ==
    SelectSeq(<<<<K_p_email, options.customerEmail>>,
                <<K_p_firstname, options.customerFirstName>>,
                <<K_p_lastname, options.customerLastName>>,
                <<K_paytext, options.paymentDescription>>,
                <<K_lang, options.language>>>>,
              LAMBDA field : C15_IsSet(field[2]))

\* C15: encodeParams emits exactly the parameters whose value is not
\* undefined, null or the empty string, in their order, as key=value with
\* key and value percent-encoded (never "key="); the payload of
\* createPaymentRequest holds the nine required fields in their order and
\* then the optional fields that are set and not empty, and no other key.
C15_OnlyProvidedFieldsEmitted ==
    /\ (Called /\ call.op = "encodeParams") =>
          LET provided == C15_Provided(call.params)
              pairs    == PairsOf(Result)
          IN  /\ IsEncodedQuery(Result)
              /\ Len(pairs) = Len(provided)
              /\ \A i \in 1..Len(pairs) :
                    /\ pairs[i] = <<provided[i].key, String(provided[i].value)>>
                    /\ pairs[i][2] # <<>>
    /\ (Called /\ call.op = "createPaymentRequest") =>
          LET query    == fromUrlSafeBase64(PayloadOf(Result.value.redirectUrl))
              pairs    == PairsOf(query)
              optional == C15_OptionalFields(call.options)
          IN  /\ IsEncodedQuery(query)
              /\ Len(pairs) = 9 + Len(optional)
              /\ \A i \in 1..9 :
                    /\ pairs[i][1] = C15_RequiredKeys[i]
                    /\ Len(pairs[i]) = 2 /\ pairs[i][2] # <<>>
              /\ \A i \in 1..Len(optional) :
                    pairs[9 + i] = <<optional[i][1], optional[i][2][1]>>

\* encodeParams has left out an empty parameter between a zero and a string
\* it emitted.
C15_Witness ==
    /\ Called
    /\ call.op = "encodeParams"
    /\ Len(call.params) = 3
    /\ call.params[1].value = Num(0)
    /\ call.params[2].value = Str(<<>>)
    /\ call.params[3].value = Str(<<"&", " ", "~">>)
    /\ Len(PairsOf(Result)) = 2

\* C16: the payload of createPaymentRequest always holds the sandbox bit,
\* test=1 for a client in test mode and test=0 otherwise, and encodeParams
\* emits a parameter whose value is the number 0 as key=0.
C16_SandboxBitAlwaysEmitted ==
    /\ (Called /\ call.op = "createPaymentRequest") =>
          LET pairs == PairsOf(fromUrlSafeBase64(
                                  PayloadOf(Result.value.redirectUrl)))
              tests == {i \in 1..Len(pairs) : pairs[i][1] = K_test}
          IN  /\ Cardinality(tests) = 1
              /\ \A i \in tests :
                    pairs[i] = <<K_test, IF call.client.config.testMode
                                         THEN <<"1">> ELSE <<"0">>>>
    /\ (Called /\ call.op = "encodeParams") =>
          \A i \in 1..Len(call.params) :
              call.params[i].value = Num(0) =>
                  \E j \in 1..Len(PairsOf(Result)) :
                      PairsOf(Result)[j] = <<call.params[i].key, <<"0">>>>

\* A client in production mode has built a request, and its payload holds
\* test=0.
C16_Witness ==
    /\ Called
    /\ call.op = "createPaymentRequest"
    /\ ~call.client.config.testMode
    /\ \E i \in 1..Len(PairsOf(fromUrlSafeBase64(PayloadOf(Result.value.redirectUrl)))) :
          PairsOf(fromUrlSafeBase64(PayloadOf(Result.value.redirectUrl)))[i]
              = <<K_test, <<"0">>>>

\* C17: for every positive amount with at most two decimals, given in major
\* units, the amount field of the payload of createPaymentRequest is that
\* amount in cents, written as an integer.
C17_AmountInCents ==
    (Called /\ call.op = "createPaymentRequest" /\ "cents" \in DOMAIN call) =>
        LET pairs == PairsOf(fromUrlSafeBase64(
                                PayloadOf(Result.value.redirectUrl)))
        IN  /\ pairs[7][1] = K_amount
            /\ \A i \in 1..Len(pairs[7][2]) : IsDigit(pairs[7][2][i])
            /\ C11_IntegerOf(pairs[7][2]) = call.cents

\* The request for 1.15, whose product with 100 is the double just below
\* 115, has been built with amount=115.
C17_Witness ==
    /\ Called
    /\ call.op = "createPaymentRequest"
    /\ "cents" \in DOMAIN call
    /\ call.cents = 115
    /\ WholePart(Multiply(call.options.amount, 100)) = 114
    /\ PairsOf(fromUrlSafeBase64(PayloadOf(Result.value.redirectUrl)))[7]
          = <<K_amount, <<"1", "1", "5">>>>

C18_UrlUpToPayload ==
    <<"h", "t", "t", "p", "s", ":", "/", "/", "w", "w", "w", ".", "p", "a",
      "y", "s", "e", "r", "a", ".", "c", "o", "m", "/", "p", "a", "y", "/",
      "?", "d", "a", "t", "a", "=">>

\* Letters, digits, "-" and "_", then at most two "=" of padding, to a
\* length that is a multiple of four.
C18_IsUrlSafeBase64(payload) ==
    /\ Len(payload) % 4 = 0
    /\ \A i \in 1..Len(payload) :
          \/ IsAlphanumeric(payload[i]) \/ payload[i] \in {"-", "_"}
          \/ payload[i] = "=" /\ i >= Len(payload) - 1
                /\ \A j \in i..Len(payload) : payload[j] = "="

C18_IsLowerHex(text) ==
    \A i \in 1..Len(text) : \E d \in 1..16 : HexDigits[d] = text[i]

\* The redirect URL is the gateway's address, "?data=", the payload,
\* "&sign=" and the signature, where the payload is URL-safe base64 (no "/",
\* no "+", its padding kept) of the encoded parameters and the signature is
\* sign(payload, password) in 32 lowercase hex digits.
C18_IsRedirectUrl(url, password) ==
    LET start     == Len(C18_UrlUpToPayload)
        payload   == SubSeq(url, start + 1, Len(url) - 38)
        signature == SubSeq(url, Len(url) - 31, Len(url))
    IN  /\ Len(url) >= start + 38
        /\ SubSeq(url, 1, start) = C18_UrlUpToPayload
        /\ SubSeq(url, Len(url) - 37, Len(url) - 32)
              = <<"&", "s", "i", "g", "n", "=">>
        /\ C18_IsUrlSafeBase64(payload)
        /\ IsEncodedQuery(fromUrlSafeBase64(payload))
        /\ C18_IsLowerHex(signature)
        /\ signature = generateSignature(payload, password)

\* C18: the URL buildPaymentUrl returns, and the redirect URL of
\* createPaymentRequest, is https://www.paysera.com/pay/?data=<payload>
\* &sign=<signature>, data first, with the payload in URL-safe base64 of the
\* encoded parameters and the signature sign(payload, password).
C18_RedirectUrlForm ==
    /\ (Called /\ call.op = "buildPaymentUrl") =>
          /\ C18_IsRedirectUrl(Result, call.password)
          /\ PairsOf(fromUrlSafeBase64(PayloadOf(Result)))
                = [i \in 1..Len(C15_Provided(call.params)) |->
                      <<C15_Provided(call.params)[i].key,
                        String(C15_Provided(call.params)[i].value)>>]
    /\ (Called /\ call.op = "createPaymentRequest") =>
          C18_IsRedirectUrl(Result.value.redirectUrl, call.client.config.password)

\* buildPaymentUrl has returned a URL whose payload holds "-", where
\* standard base64 has "+", and ends in padding.
C18_Witness ==
    /\ Called
    /\ call.op = "buildPaymentUrl"
    /\ \E i \in 1..Len(PayloadOf(Result)) : PayloadOf(Result)[i] = "-"
    /\ PayloadOf(Result)[Len(PayloadOf(Result))] = "="

C19_HasNoSlashOrPlus(text) ==
    \A i \in 1..Len(text) : text[i] \notin {"/", "+"}

\* C19, as stated: the encoding of every string holds no "/" and no "+", and
\* decoding it gives the string back.
C19_EveryStringRoundTrips ==
    /\ (Called /\ call.op = "toUrlSafeBase64") => C19_HasNoSlashOrPlus(Result)
    /\ (Called /\ call.op = "fromUrlSafeBase64") => Result = call.original

\* C19, amended: the encoding of every string holds no "/" and no "+", and
\* decoding it gives the string with each unpaired surrogate replaced by
\* U+FFFD, which is the string itself exactly when it holds no unpaired
\* surrogate.
C19_WellFormedStringsRoundTrip ==
    /\ (Called /\ call.op = "toUrlSafeBase64") => C19_HasNoSlashOrPlus(Result)
    /\ (Called /\ call.op = "fromUrlSafeBase64") =>
          /\ Result = [i \in 1..Len(call.original) |->
                          IF call.original[i] = UNPAIRED_SURROGATE
                          THEN REPLACEMENT ELSE call.original[i]]
          /\ (Result = call.original) <=>
                (\A i \in 1..Len(call.original) :
                    call.original[i] # UNPAIRED_SURROGATE)

\* The encoding of "???", which is Pz8/ in standard base64, has been decoded
\* from Pz8_ to "???".
C19_Witness ==
    /\ Called
    /\ call.op = "fromUrlSafeBase64"
    /\ call.original = <<"?", "?", "?">>
    /\ call.str = <<"P", "z", "8", "_">>
    /\ Result = call.original

C21_Raw(key) ==
    IF key \in DOMAIN call.rawData THEN <<call.rawData[key]>> ELSE <<>>

\* C21: for a mapping with every required field, parseCallbackData returns
\* an event (it never fails) whose paytext, name, surename, payment and
\* country are the raw values when present, the empty string included, and
\* undefined when absent, and whose test is 1 for the raw value "1", 0 for
\* "0" and undefined for every other raw value and when absent.
C21_OptionalFieldsCopied ==
    (Called /\ call.op = "parseCallbackData") =>
        /\ Result.ok
        /\ Result.value.paytext = C21_Raw(K_paytext)
        /\ Result.value.name = C21_Raw(K_name)
        /\ Result.value.surename = C21_Raw(K_surename)
        /\ Result.value.payment = C21_Raw(K_payment)
        /\ Result.value.country = C21_Raw(K_country)
        /\ Result.value.test =
              (IF C21_Raw(K_test) = <<<<"1">>>> THEN <<1>>
               ELSE IF C21_Raw(K_test) = <<<<"0">>>> THEN <<0>>
               ELSE <<>>)
        /\ DOMAIN Result.value =
              {"projectid", "orderid", "amount", "currency", "status",
               "requestid", "paytext", "name", "surename", "payment",
               "country", "test"}

\* A mapping with test "01", a payment text, no country and a key the event
\* has no field for has been parsed: test is undefined.
C21_Witness ==
    /\ Called
    /\ call.op = "parseCallbackData"
    /\ C21_Raw(K_test) = <<<<"0", "1">>>>
    /\ C21_Raw(K_paytext) = <<<<"L", " ", "t">>>>
    /\ K_country \notin DOMAIN call.rawData
    /\ K_unrecognised \in DOMAIN call.rawData
    /\ Result.ok
    /\ Result.value.test = <<>>
    /\ Result.value.country = <<>>

\* The request was answered by handleServerCallback after FetchAppDetails
\* returned the app, before any report was sent.
C22_AnsweredAfterAppDetails ==
    /\ pc = "done"
    /\ env.apl = "authData"
    /\ env.app \in AppResults
    /\ ~env.app.error
    /\ env.app.app # Undefined
    /\ env.report = ""

C22_Config == getPayseraConfigFromMetadata(env.app.app[1].privateMetadata)

C22_Processed ==
    processCallback(PayseraClient(C22_Config.value).value,
                    [data |-> req.data[1], ss1 |-> req.ss1[1]]).result

\* C22: a configuration that fails to load is answered 500; with data and
\* ss1 present, a PayseraSignatureError of processCallback is answered 400
\* "Invalid signature", a PayseraCallbackDataError 400 "Invalid callback
\* data", and any other error leaves the handler (the framework answers
\* 500); none of them is answered 200.
C22_ErrorsMappedToDistinctRejections ==
    C22_AnsweredAfterAppDetails =>
        /\ res # Undefined
        /\ res[1].status # 200
        /\ ~C22_Config.ok => res = Respond(500, "Paysera not configured")
        /\ (/\ C22_Config.ok
            /\ req.data \notin {Undefined, Some(<<>>)}
            /\ req.ss1 \notin {Undefined, Some(<<>>)}) =>
              /\ ~C22_Processed.ok
              /\ C22_Processed.error = "PayseraSignatureError"
                    => res = Respond(400, "Invalid signature")
              /\ C22_Processed.error = "PayseraCallbackDataError"
                    => res = Respond(400, "Invalid callback data")
              /\ C22_Processed.error
                    \notin {"PayseraSignatureError", "PayseraCallbackDataError"}
                    => res = Unhandled

\* A callback signed with another password has been answered 400 "Invalid
\* signature".
C22_Witness ==
    /\ C22_AnsweredAfterAppDetails
    /\ C22_Config.ok
    /\ req.data # Undefined
    /\ req.ss1 = Some(generateSignature(req.data[1], OtherPassword))
    /\ res = Respond(400, "Invalid signature")

\* A callback whose payload holds a malformed escape, signed with the stored
\* password, has left the handler with the URIError of decodeURIComponent.
C22_WitnessPropagated ==
    /\ C22_AnsweredAfterAppDetails
    /\ C22_Config.ok
    /\ req.data = Signed(BadEscapeQuery, StoredConfig.password).data
    /\ res = Unhandled

\* Every result recorded so far is the one the call gives on a client that
\* was just constructed from the configuration and has done nothing else.
C23_ResultsAsIfAlone ==
    outcome.client # Undefined =>
        /\ outcome.client[1] = Ok([config |-> call.config])
        /\ \A i \in 1..Len(outcome.callbacks) :
              outcome.callbacks[i].result =
                  verifyAndDecodeCallback(outcome.callbacks[i].rawCallback,
                                          call.config.password).result
        /\ \A i \in 1..Len(outcome.classified) :
              LET status == outcome.classified[i].callbackData.status
              IN  /\ outcome.classified[i].successful = (status = 1)
                  /\ outcome.classified[i].pending = (status \in {0, 2})
        /\ \A i \in 1..Len(outcome.requests) :
              outcome.requests[i].result.ok

\* C23: in every order of createPaymentRequest, processCallback,
\* isPaymentSuccessful and isPaymentPending calls on one client, no call
\* changes the client (it holds the configuration it was constructed with
\* and nothing else), and each processCallback and classification result is
\* the one the call gives alone: a function of its argument and of the
\* configuration.
C23_NoOperationMutatesClient ==
    /\ []C23_ResultsAsIfAlone
    /\ [][outcome.client # Undefined =>
             /\ outcome'.client = outcome.client
             /\ \A i \in 1..Len(outcome.callbacks) :
                   outcome'.callbacks[i] = outcome.callbacks[i]
             /\ \A i \in 1..Len(outcome.classified) :
                   outcome'.classified[i] = outcome.classified[i]]_vars

\* A callback was accepted, an event was classified, and the same callback
\* was accepted again with the same result.
C23_Witness ==
    /\ outcome.client # Undefined
    /\ Len(outcome.callbacks) = 2
    /\ Len(outcome.classified) = 1
    /\ outcome.callbacks[1].result.ok
    /\ outcome.callbacks[2] = outcome.callbacks[1]

\* C24: serializePayseraConfig gives an entry with the key paysera_config,
\* and a configuration with non-empty project id and password that was
\* serialized is loaded again, equal to what it was, from metadata that
\* holds the entry alone or among entries with other keys.
C24_StoredConfigRoundTrips ==
    /\ (Called /\ call.op = "serializePayseraConfig") =>
          Result.key = "paysera_config"
    /\ (/\ Called
        /\ call.op = "getPayseraConfigFromMetadata"
        /\ call.config # Undefined) =>
          /\ Result.loaded.ok
          /\ Result.loaded.value = call.config[1]

\* A configuration whose password holds a quote and a backslash has been
\* loaded, unchanged, from metadata with three entries.
C24_Witness ==
    /\ Called
    /\ call.op = "getPayseraConfigFromMetadata"
    /\ call.config # Undefined
    /\ call.config[1].password = <<"\"", "\\">>
    /\ ~call.config[1].testMode
    /\ Len(call.privateMetadata[1]) = 3
    /\ Result.loaded = Ok(call.config[1])

C28_Entries ==
    IF call.privateMetadata = Undefined THEN {}
    ELSE {call.privateMetadata[1][i] : i \in 1..Len(call.privateMetadata[1])}

C28_ConfigEntries == {entry \in C28_Entries : entry.key = "paysera_config"}

C28_Id == [key |-> K_projectId, value |-> JsonString(<<"1">>)]

C28_Password == [key |-> K_password, value |-> JsonString(<<"p", "w">>)]

\* The objects of OtherObjects that fit the schema: a project id and a
\* password that are non-empty strings, alone, with a boolean test mode, or
\* with a member the schema does not name.
C28_FittingTexts ==
    {JsonObjectText(<<C28_Id, C28_Password>>),
     JsonObjectText(<<C28_Id, C28_Password,
                      [key |-> K_testMode, value |-> JsonBoolean(FALSE)]>>),
     JsonObjectText(<<C28_Id, C28_Password,
                      [key |-> <<"x">>, value |-> JsonString(<<"y">>)]>>)}

\* C28: getPayseraConfigFromMetadata throws PayseraConfigError for no
\* metadata, an empty list, a list without the key paysera_config, a value
\* that is not JSON and an object that violates the schema; otherwise it
\* returns a configuration with a non-empty project id, a non-empty
\* password and a boolean test mode, true when the object has none; and the
\* PayseraClient constructed from a configuration it returned exists.
C28_LoadedConfigIsValid ==
    (Called /\ call.op = "getPayseraConfigFromMetadata") =>
        LET loaded == Result.loaded
        IN  /\ ~loaded.ok => loaded.error = "PayseraConfigError"
            /\ C28_Entries = {} =>
                  ~loaded.ok /\ loaded.message[1] = "No private metadata found"
            /\ (C28_Entries # {} /\ C28_ConfigEntries = {}) =>
                  /\ ~loaded.ok
                  /\ loaded.message[1]
                        = "Paysera configuration not found in metadata"
            /\ \A entry \in C28_ConfigEntries :
                  /\ entry.value \in {NotJson, <<>>} =>
                        /\ ~loaded.ok
                        /\ loaded.message[1]
                              = "Invalid JSON in Paysera configuration"
                  /\ (call.config = Undefined
                      /\ entry.value \notin {NotJson, <<>>}) =>
                        /\ loaded.ok <=> entry.value \in C28_FittingTexts
                        /\ ~loaded.ok =>
                              loaded.message[1] = "Invalid Paysera configuration: "
                  /\ entry.value = JsonObjectText(<<C28_Id, C28_Password>>) =>
                        loaded = Ok([projectId |-> <<"1">>,
                                     password |-> <<"p", "w">>,
                                     testMode |-> TRUE])
            /\ loaded.ok =>
                  /\ loaded.value.projectId # <<>>
                  /\ loaded.value.password # <<>>
                  /\ loaded.value.testMode \in BOOLEAN
                  /\ DOMAIN loaded.value = {"projectId", "password", "testMode"}
                  /\ Result.client # Undefined
                  /\ Result.client[1].ok

\* A stored object with a project id and a password and no test mode has
\* been loaded, its test mode is true, and a client was constructed from it.
C28_Witness ==
    /\ Called
    /\ call.op = "getPayseraConfigFromMetadata"
    /\ call.config = Undefined
    /\ C28_ConfigEntries # {}
    /\ \A entry \in C28_ConfigEntries :
          entry.value = JsonObjectText(<<C28_Id, C28_Password>>)
    /\ Result.loaded.ok
    /\ Result.loaded.value.testMode = TRUE
    /\ Result.client[1].ok

\* C25, as stated: a request is answered once, and the handler's own answer
\* is 400 "Missing transactionId" without a transaction id whatever the
\* action, else a redirect to the success page for accept and to the cancel
\* page for cancel, 400 "Missing saleorApiUrl" for callback without a
\* Saleor API URL, and 400 "Unknown action" for any other action or none; a
\* callback with both is handed to handleServerCallback.
C25_DispatchOnAction ==
    /\ pc = "done" => res # Undefined
    /\ pc \in {"apl", "appDetails", "report"} =>
          /\ res = Undefined
          /\ req.action = Some("callback")
          /\ req.transactionId # Undefined
          /\ req.saleorApiUrl # Undefined
    /\ (pc = "done" /\ env = NoEnv) =>
          res = IF req.transactionId = Undefined
                THEN Respond(400, "Missing transactionId")
                ELSE IF req.action = Some("accept")
                THEN Redirect("/checkout/success")
                ELSE IF req.action = Some("cancel")
                THEN Redirect("/checkout/cancel")
                ELSE IF req.action = Some("callback")
                THEN Respond(400, "Missing saleorApiUrl")
                ELSE Respond(400, "Unknown action")

\* The request in hand carries a payload signed with the password of the
\* configuration the app returned, and processCallback returns an event for
\* it.
C26_Authenticated(app) ==
    /\ req.data # Undefined
    /\ req.ss1 # Undefined
    /\ app \in AppResults
    /\ ~app.error
    /\ app.app # Undefined
    /\ LET config == getPayseraConfigFromMetadata(app.app[1].privateMetadata)
       IN  /\ config.ok
           /\ EqualUpToCase(req.ss1[1],
                            generateSignature(req.data[1], config.value.password))
           /\ processCallback(PayseraClient(config.value).value,
                              [data |-> req.data[1],
                               ss1 |-> req.ss1[1]]).result.ok

C26_NoMoreReportsThanRequests == Len(reports) <= deliveries

\* C26: a step reports at most one event, and only the step of
\* handleServerCallback in which processCallback has returned an event for
\* a payload that carries the signature of the stored password; a request
\* answered from any other place (a rejection or a redirect) has reported
\* nothing, and no more events are reported than requests were received.
C26_ReportOnlyAfterDecoding ==
    /\ []C26_NoMoreReportsThanRequests
    /\ [][/\ reports' # reports =>
                /\ pc = "appDetails"
                /\ pc' = "report"
                /\ Len(reports') = Len(reports) + 1
                /\ SubSeq(reports', 1, Len(reports)) = reports
                /\ C26_Authenticated(env'.app)
          /\ (pc' = "done" /\ pc # "report") => reports' = reports
          /\ pc = "report" => reports' = reports]_vars

\* A callback signed with another password has been rejected in a delivery
\* that followed a reported one: one event, two deliveries.
C26_Witness ==
    /\ pc = "done"
    /\ deliveries = 2
    /\ Len(reports) = 1
    /\ res = Respond(400, "Invalid signature")

\* C27: the envelope buildRequest returns verifies under the password it was
\* built with, and its payload decodes to a mapping whose keys are the keys
\* of the parameters that were not left out, each with the string form of
\* its value.
C27_EnvelopeVerifiesAndDecodes ==
    (Called /\ call.op = "buildRequest") =>
        LET provided == C15_Provided(call.params)
        IN  /\ Result.verified
            /\ Result.decoded.ok
            /\ DOMAIN Result.decoded.value
                  = {provided[i].key : i \in 1..Len(provided)}
            /\ \A i \in 1..Len(provided) :
                  Result.decoded.value[provided[i].key]
                      = String(provided[i].value)

\* Parameters with the values "&=", "%41" and "+ " have been encoded,
\* verified and decoded to these three values.
C27_Witness ==
    /\ Called
    /\ call.op = "buildRequest"
    /\ Len(call.params) = 3
    /\ call.params[1].value = Str(<<"&", "=">>)
    /\ call.params[2].value = Str(<<"%", "4", "1">>)
    /\ call.params[3].value = Str(<<"+", " ">>)
    /\ Result.verified
    /\ Result.decoded.ok
    /\ Result.decoded.value[call.params[2].key] = <<"%", "4", "1">>

C29_Foreign == Signed(ForeignPaymentQuery, StoredConfig.password)

\* C29: an event is reported under the transaction id of the request URL
\* and with the amount of the signed payload over 100, and the payment of
\* another project and order, signed with the stored password, is reported
\* like any other: the step of handleServerCallback that has the
\* configuration and this payload always sends the report.
C29_ReportKeyedByUrlTransaction ==
    [][/\ reports' # reports =>
             LET report  == reports'[Len(reports')]
                 decoded == decodeCallbackData(req.data[1]).value
             IN  /\ report.id = req.transactionId[1]
                 /\ report.amount = <<C11_IntegerOf(decoded[K_amount]), 100>>
                 /\ report.callbackData.projectid = decoded[K_projectid]
                 /\ report.callbackData.orderid = decoded[K_orderid]
       /\ (/\ pc = "appDetails"
           /\ req.data = C29_Foreign.data
           /\ req.ss1 = C29_Foreign.ss1
           /\ env'.app = [error |-> FALSE,
                          app |-> Some([privateMetadata |->
                                     Some(<<OtherItem,
                                            serializePayseraConfig(StoredConfig)>>)])]) =>
             /\ pc' = "report"
             /\ Len(reports') = Len(reports) + 1]_vars

\* The payment of project 9, order x, has been reported for transaction T1
\* with the amount 2500 / 100 by the app of project 1.
C29_Witness ==
    /\ pc = "report"
    /\ Len(reports) = 1
    /\ reports[1].id = "T1"
    /\ reports[1].amount = <<2500, 100>>
    /\ reports[1].callbackData.projectid = <<"9">>
    /\ reports[1].callbackData.orderid = <<"x">>
    /\ StoredConfig.projectId = <<"1">>

C30_Payload == call.ctx.payload

C30_Loaded == getPayseraConfigFromMetadata(C30_Payload.recipient.privateMetadata)

\* The texts of the payload that the request carries.
C30_Texts ==
    (IF C30_Payload.sourceObject = Undefined THEN {}
     ELSE LET source == C30_Payload.sourceObject[1]
          IN  (IF source.billingAddress = Undefined THEN {}
               ELSE {source.billingAddress[1].firstName,
                     source.billingAddress[1].lastName})
              \cup {field[1] : field \in {source.email, source.userEmail,
                                          source.languageCode} \ {Undefined}})
    \cup {field[1] : field \in {C30_Payload.merchantReference} \ {Undefined}}

C30_RequestBuilt ==
    \A text \in C30_Texts : \A i \in 1..Len(text) : text[i] # UNPAIRED_SURROGATE

\* C30: the handler always answers 200 with one body.  When the
\* configuration loads and the request is built the result is
\* CHARGE_ACTION_REQUIRED, externalUrl is a payment URL whose payload
\* carries the configured project and the order id generated for the
\* transaction, and data.payseraOrderId is that order id; otherwise the
\* result is CHARGE_FAILURE for a Charge and AUTHORIZATION_FAILURE for any
\* other action type, with no action and no externalUrl.
C30_AlwaysOneResult ==
    Called =>
        /\ Result.status = 200
        /\ Result.body # Undefined
        /\ LET body == Result.body[1]
           IN  IF C30_Loaded.ok /\ C30_RequestBuilt
               THEN /\ body.result = "CHARGE_ACTION_REQUIRED"
                    /\ body.externalUrl # Undefined
                    /\ SubSeq(body.externalUrl[1], 1, Len(PAYSERA_PAYMENT_URL))
                           = PAYSERA_PAYMENT_URL
                    /\ \A sent \in {decodeCallbackData(
                                        PayloadOf(body.externalUrl[1])).value} :
                           /\ sent[K_projectid] = C30_Loaded.value.projectId
                           /\ sent[K_orderid] =
                                  generateOrderId(C30_Payload.transaction.id,
                                                  call.orderUuid)
                           /\ body.data.payseraOrderId = Some(sent[K_orderid])
               ELSE /\ body.result =
                          (IF C30_Payload.action.actionType = "CHARGE"
                           THEN "CHARGE_FAILURE" ELSE "AUTHORIZATION_FAILURE")
                    /\ body.actions = <<>>
                    /\ body.externalUrl = Undefined

\* An authorization whose configuration loaded and whose request creation
\* threw has been answered.
C30_Witness ==
    /\ Called
    /\ C30_Payload.action.actionType = "AUTHORIZATION"
    /\ C30_Loaded.ok
    /\ ~C30_RequestBuilt
    /\ Result.status = 200
    /\ Result.body[1].result = "AUTHORIZATION_FAILURE"
    /\ Result.body[1].data.error = Some("PAYMENT_REQUEST_ERROR")
    /\ Result.body[1].message[1] = "URI malformed"

=============================================================================
